---------------------------- MODULE Spec2Model ----------------------------
(***************************************************************************)
(* Model of the solar-system music sequencer's simulation core:            *)
(* lib/simulation/simulation.ts (orchestrator), lib/physics/loop.ts        *)
(* (snapshot / rewind / gravity), lib/entities/{star,planet,satellite}.ts, *)
(* utils/physics.ts, utils/audio.ts, lib/audio/scales.ts and the voice     *)
(* table of lib/audio/synthManager.ts.                                     *)
(*                                                                         *)
(* All quantities are integers in fixed-point units:                       *)
(*   time      1/3 ms, so the 1000/60 ms physics step is exactly 50        *)
(*   position  1/100 px (world coordinates); radii and distances given     *)
(*             to the API (orbitRadius) are whole px                       *)
(*   velocity  1/1000 of a position unit per physics step                  *)
(*   force     mass * velocity units, already multiplied by the squared    *)
(*             physics step (the form in which the integrator adds it)     *)
(*   angle     1/180000 of a turn (TWO_PI = 180000); cos/sin/atan2 work    *)
(*             on a table of 180 directions, 2 degrees apart               *)
(*   volume    1/60000 (VOLUME_MAX = 60000, VOLUME_MIN = 600)              *)
(*   pulse     1/750  (a full pulse is 750; the decay is 1 per 1/3 ms)     *)
(***************************************************************************)
EXTENDS Integers, Sequences, FiniteSets, TLC

(***************************************************************************)
(* Integer helpers                                                         *)
(***************************************************************************)
Abs(a) == IF a < 0 THEN -a ELSE a

\* Math.sign
Sign(a) == IF a > 0 THEN 1 ELSE IF a < 0 THEN -1 ELSE 0

Max(a, b) == IF a >= b THEN a ELSE b

Min(a, b) == IF a <= b THEN a ELSE b

\* a / b rounded to the nearest integer, symmetric about zero (b > 0)
RoundDiv(a, b) == Sign(a) * ((Abs(a) + (b \div 2)) \div b)

\* a * b / c rounded down in magnitude, without forming the product a * b
\* (a >= 0, c > 0)
MulDiv(a, b, c) == Sign(b) * ((a \div c) * Abs(b) + (((a % c) * Abs(b)) \div c))

RECURSIVE SqrtSearch(_, _, _)
SqrtSearch(n, lo, hi) ==
    IF lo >= hi THEN lo
    ELSE LET mid == (lo + hi + 1) \div 2
         IN  IF mid * mid <= n THEN SqrtSearch(n, mid, hi)
                               ELSE SqrtSearch(n, lo, mid - 1)

\* floor(Math.sqrt(n)) for 0 <= n < 2^31
ISqrt(n) == SqrtSearch(n, 0, 46340)

Vec(x, y) == [x |-> x, y |-> y]

ZeroVec == Vec(0, 0)

(***************************************************************************)
(* Trigonometry on a table of 180 directions                               *)
(***************************************************************************)
TWO_PI == 180000

PI == 90000

\* angle units between two neighbouring table directions (2 degrees)
DirStep == 1000

NumDirs == 180

\* round(100 * cos(2k degrees)), k = 0..45
CosQuarter ==
    << 100, 100, 100, 99, 99, 98, 98, 97, 96, 95, 94, 93, 91, 90, 88, 87,
       85, 83, 81, 79, 77, 74, 72, 69, 67, 64, 62, 59, 56, 53, 50, 47, 44,
       41, 37, 34, 31, 28, 24, 21, 17, 14, 10, 7, 3, 0 >>

CosDir(k) ==
    IF k <= 45 THEN CosQuarter[k + 1]
    ELSE IF k <= 90 THEN -CosQuarter[90 - k + 1]
    ELSE IF k <= 135 THEN -CosQuarter[k - 90 + 1]
    ELSE CosQuarter[180 - k + 1]

SinDir(k) == CosDir((k + 135) % NumDirs)

DirOf(a) == (a % TWO_PI) \div DirStep

\* Math.cos / Math.sin, times 100
Cos(a) == CosDir(DirOf(a))

Sin(a) == SinDir(DirOf(a))

Cross(ax, ay, bx, by) == ax * by - ay * bx

\* the table direction k such that (x, y) lies on it, or strictly between it
\* and direction k + 1 (counter-clockwise)
SectorOf(y, x) ==
    CHOOSE k \in 0..(NumDirs - 1) :
        /\ Cross(CosDir(k), SinDir(k), x, y) >= 0
        /\ Cross(CosDir((k + 1) % NumDirs), SinDir((k + 1) % NumDirs), x, y) < 0
        /\ CosDir(k) * x + SinDir(k) * y > 0

OnDir(y, x, k) == Cross(CosDir(k), SinDir(k), x, y) = 0

\* Math.atan2(y, x) in (-PI, PI]: exact on a table direction, otherwise
\* rounded away from zero to the next table direction, so that the result is
\* 0 only for a vector on the positive x axis and its sign is the sign of y
Atan2(y, x) ==
    IF x = 0 /\ y = 0 THEN 0
    ELSE LET k == SectorOf(y, x)
             up == IF OnDir(y, x, k) THEN k ELSE k + 1
         IN  IF OnDir(y, x, k)
             THEN (IF k * DirStep > PI THEN k * DirStep - TWO_PI ELSE k * DirStep)
             ELSE IF up * DirStep <= PI THEN up * DirStep
             ELSE k * DirStep - TWO_PI


Null == [null |-> TRUE]

(***************************************************************************)
(* utils/physics.ts                                                        *)
(***************************************************************************)
\* gravitational constant 6.674e-4, times 10^7
G == 6674

\* fixed physics timestep 1000/60 ms, in 1/3 ms
PHYSICS_DELTA_MS == 50

\* G * PHYSICS_DELTA_MS^2 (ms^2), times 10^5: the factor by which a mass
\* over a squared distance in px becomes a velocity change per step in
\* velocity units
GDT2 == RoundDiv(G * PHYSICS_DELTA_MS * PHYSICS_DELTA_MS, 900)

\* speed in velocity units; orbitRadius in position units
circularOrbitSpeed(centralMass, orbitRadius, strength) ==
    IF orbitRadius <= 0 \/ centralMass <= 0 THEN 0
    ELSE LET gm == ((GDT2 * centralMass) \div 100) * strength
         IN  ISqrt(MulDiv(gm, 1000, orbitRadius) * 100) * 100

circularOrbitVelocity(centerPosition, orbitPosition, centralMass, strength, clockwise) ==
    LET dx == orbitPosition.x - centerPosition.x
        dy == orbitPosition.y - centerPosition.y
        r  == ISqrt(dx * dx + dy * dy)
        speed == circularOrbitSpeed(centralMass, r, strength)
    IN  IF r = 0 THEN ZeroVec
        ELSE IF clockwise
             THEN Vec(MulDiv(speed, dy, r), MulDiv(speed, -dx, r))
             ELSE Vec(MulDiv(speed, -dy, r), MulDiv(speed, dx, r))

\* force on body A exerted by body B, in force units
gravitationalForce(posA, posB, massA, massB, strength) ==
    LET dx == posB.x - posA.x
        dy == posB.y - posA.y
        distSq == dx * dx + dy * dy
        dist == ISqrt(distSq)
        distSqPx == Max(1, distSq \div 10000)
        forceMag == ((GDT2 * massB) \div distSqPx) * strength * massA
    IN  IF distSq = 0 THEN ZeroVec
        ELSE Vec(MulDiv(forceMag, dx, dist), MulDiv(forceMag, dy, dist))

orbitalAngle(center, position) ==
    Atan2(position.y - center.y, position.x - center.x)

angleFromTop(center, position) ==
    LET angle == Atan2(position.x - center.x, -(position.y - center.y))
    IN  IF angle < 0 THEN angle + TWO_PI ELSE angle

(***************************************************************************)
(* utils/audio.ts                                                          *)
(***************************************************************************)
VOLUME_MIN == 600

VOLUME_MAX == 60000

MAX_AUDIBLE_DISTANCE == 600

\* the interpolation without its clamps
distanceToVolumeUnclamped(distance) ==
    VOLUME_MAX - (distance * (VOLUME_MAX - VOLUME_MIN)) \div MAX_AUDIBLE_DISTANCE

\* distance in px
distanceToVolume(distance) ==
    IF distance <= 0 THEN VOLUME_MAX
    ELSE LET capped == Min(distance, MAX_AUDIBLE_DISTANCE)
             volume == VOLUME_MAX
                         - (capped * (VOLUME_MAX - VOLUME_MIN)) \div MAX_AUDIBLE_DISTANCE
         IN  Max(VOLUME_MIN, Min(VOLUME_MAX, volume))

NoteDurations == {"whole", "half", "quarter", "eighth", "sixteenth"}

\* beats of each duration, times 4
DURATION_BEATS ==
    [whole |-> 16, half |-> 8, quarter |-> 4, eighth |-> 2, sixteenth |-> 1]

\* duration of a note in ms
noteDurationToMs(duration, bpm) ==
    IF bpm <= 0 THEN 0
    ELSE (DURATION_BEATS[duration] * 15000) \div bpm

(***************************************************************************)
(* lib/audio/scales.ts                                                     *)
(* A scale-degree token is [degree, octave]; a note-sequence string is the *)
(* sequence of its whitespace-separated tokens; a note is [name, octave].  *)
(***************************************************************************)
MODE_INTERVALS ==
    [ Ionian     |-> <<0, 2, 4, 5, 7, 9, 11>>,
      Dorian     |-> <<0, 2, 3, 5, 7, 9, 10>>,
      Phrygian   |-> <<0, 1, 3, 5, 7, 8, 10>>,
      Lydian     |-> <<0, 2, 4, 6, 7, 9, 11>>,
      Mixolydian |-> <<0, 2, 4, 5, 7, 9, 10>>,
      Aeolian    |-> <<0, 2, 3, 5, 7, 8, 10>>,
      Locrian    |-> <<0, 1, 3, 5, 6, 8, 10>> ]

DEGREE_TO_INDEX ==
    [I |-> 0, II |-> 1, III |-> 2, IV |-> 3, V |-> 4, VI |-> 5, VII |-> 6]

CHROMATIC_NOTES ==
    <<"C", "C#", "D", "Eb", "E", "F", "F#", "G", "Ab", "A", "Bb", "B">>

KEY_SEMITONE ==
    [ C |-> 0, Cs |-> 1, D |-> 2, Eb |-> 3, E |-> 4, F |-> 5, Fs |-> 6,
      G |-> 7, Ab |-> 8, A |-> 9, Bb |-> 10, B |-> 11 ]

Note(name, octave) == [name |-> name, octave |-> octave]

buildScale(key, mode, octave) ==
    [ i \in 1..7 |->
        LET totalSemitone == KEY_SEMITONE[key] + MODE_INTERVALS[mode][i]
        IN  Note(CHROMATIC_NOTES[(totalSemitone % 12) + 1],
                 octave + (totalSemitone \div 12)) ]

\* TRUE iff the token matches /^(VII|VI|IV|V|III|II|I)(\d+)$/
isValidScaleDegree(token) ==
    token.degree \in DOMAIN DEGREE_TO_INDEX /\ token.octave >= 0

\* the note of a token, or Null where the source throws
scaleDegreeToNote(token, key, mode) ==
    IF ~isValidScaleDegree(token) THEN Null
    ELSE buildScale(key, mode, token.octave)[DEGREE_TO_INDEX[token.degree] + 1]

\* a parse that keeps every token
keepEveryToken(input) == input

parseNoteSequence(input) == SelectSeq(input, isValidScaleDegree)

(***************************************************************************)
(* lib/physics/collisions.ts, lib/entities/star.ts                         *)
(* A rigid body is a record; entities refer to their body by its id.       *)
(***************************************************************************)
createCelestialBody(bodyId, x, y, mass, isStatic) ==
    [ id |-> bodyId, isStatic |-> isStatic, mass |-> mass,
      position |-> Vec(x, y), velocity |-> ZeroVec,
      angle |-> 0, angularVelocity |-> 0, force |-> ZeroVec,
      deltaTime |-> PHYSICS_DELTA_MS ]

STAR_DEFAULT_MASS == 50000

STAR_DEFAULT_BPM == 120

\* options: [x, y, mass, bpm, key, mode]
createStar(options, starId, bodyId) ==
    [ star |-> [ id |-> starId, position |-> Vec(options.x, options.y),
                 mass |-> options.mass, bpm |-> options.bpm,
                 key |-> options.key, mode |-> options.mode,
                 physicsBody |-> bodyId ],
      body |-> createCelestialBody(bodyId, options.x, options.y, options.mass, TRUE) ]

(***************************************************************************)
(* lib/entities/planet.ts                                                  *)
(***************************************************************************)
MAX_PLANETS == 20

\* options: [x, y, mass, rotationSpeed, noteSequence, synthType, clockwise];
\* star is the current star or Null
createPlanet(options, star, gravityStrength, planetId, bodyId) ==
    LET pos == Vec(options.x, options.y)
        body0 == createCelestialBody(bodyId, options.x, options.y, options.mass, FALSE)
        vel == IF star # Null
               THEN circularOrbitVelocity(star.position, pos, star.mass,
                                          gravityStrength, options.clockwise)
               ELSE ZeroVec
        starPos == IF star # Null THEN star.position ELSE ZeroVec
        dx == options.x - starPos.x
        dy == options.y - starPos.y
    IN  [ planet |-> [ id |-> planetId,
                       position |-> pos,
                       velocity |-> vel,
                       mass |-> options.mass,
                       rotation |-> 0,
                       rotationSpeed |-> options.rotationSpeed,
                       noteSequence |-> parseNoteSequence(options.noteSequence),
                       currentNoteIndex |-> 0,
                       synthType |-> options.synthType,
                       orbitRadius |-> ISqrt(dx * dx + dy * dy),
                       orbitAngle |-> orbitalAngle(starPos, pos),
                       physicsBody |-> bodyId ],
          body |-> [body0 EXCEPT !.velocity = vel] ]

RECURSIVE norm(_)
\* normalise an angle to [-PI, PI]
norm(a) ==
    IF a > PI THEN norm(a - TWO_PI)
    ELSE IF a < -PI THEN norm(a + TWO_PI)
    ELSE a

didCrossZero(prevAngle, currentAngle) ==
    LET p == norm(prevAngle)
        c == norm(currentAngle)
    IN  IF Sign(p) # Sign(c) THEN Abs(c - p) < PI ELSE FALSE

\* body is the planet's rigid body as it is now, or Null
updatePlanet(planet, star, deltaMs, body) ==
    IF body = Null
    THEN [planet |-> planet, noteAdvanced |-> FALSE, newNote |-> Null]
    ELSE
      LET noteDurMs == noteDurationToMs(planet.rotationSpeed, star.bpm)
          rotationDelta == IF noteDurMs > 0
                           THEN (deltaMs * (TWO_PI \div 3)) \div noteDurMs
                           ELSE 0
          currentOrbitAngle == orbitalAngle(star.position, body.position)
          crossed == didCrossZero(planet.orbitAngle, currentOrbitAngle)
          advance == crossed /\ Len(planet.noteSequence) > 0
          newNoteIndex == IF advance
                          THEN (planet.currentNoteIndex + 1) % Len(planet.noteSequence)
                          ELSE planet.currentNoteIndex
      IN  [ planet |-> [planet EXCEPT !.position = body.position,
                                      !.velocity = body.velocity,
                                      !.rotation = planet.rotation + rotationDelta,
                                      !.orbitAngle = currentOrbitAngle,
                                      !.currentNoteIndex = newNoteIndex],
            noteAdvanced |-> advance,
            newNote |-> IF advance
                        THEN scaleDegreeToNote(planet.noteSequence[newNoteIndex + 1],
                                               star.key, star.mode)
                        ELSE Null ]

\* the note the planet started on, whatever its cursor
getFirstNote(planet, star) ==
    IF Len(planet.noteSequence) = 0 THEN Null
    ELSE scaleDegreeToNote(planet.noteSequence[1], star.key, star.mode)

getCurrentNote(planet, star) ==
    IF Len(planet.noteSequence) = 0 THEN Null
    ELSE scaleDegreeToNote(planet.noteSequence[planet.currentNoteIndex + 1],
                           star.key, star.mode)

\* a new sequence under the old cursor
setNotesKeepingIndex(planet, sequence) ==
    [planet EXCEPT !.noteSequence = parseNoteSequence(sequence)]

setPlanetNoteSequence(planet, sequence) ==
    [planet EXCEPT !.noteSequence = parseNoteSequence(sequence),
                   !.currentNoteIndex = 0]

(***************************************************************************)
(* lib/entities/satellite.ts                                               *)
(***************************************************************************)
MAX_SATELLITES == 100

\* A pulse is a double in [0, 1], held exactly as hi * 2^28 + lo in units of
\* 2^-56 (every double the decay reaches is a multiple of 2^-56).
PULSE_NONE == [hi |-> 0, lo |-> 0]

PULSE_FULL == [hi |-> 2^28, lo |-> 0]

\* The double that PULSE_DECAY_RATE * deltaMs (0.004 * deltaMs) gives, for the
\* frame times 1000/60 ms, 2000/60 ms and 50 ms (deltaMs in 1/3 ms):
\* 0.06666666666666668, 0.13333333333333336 and 0.2
PULSE_DECAY_RATE ==
    [deltaMs \in {50, 100, 150} |->
        CASE deltaMs = 50 -> [hi |-> 17895697, lo |-> 17895698]
          [] deltaMs = 100 -> [hi |-> 35791394, lo |-> 35791396]
          [] deltaMs = 150 -> [hi |-> 53687091, lo |-> 53687092]]

\* 3000 * (r / 30)^1.5 ms, in 1/3 ms; orbitRadius in px
orbitPeriodMs(orbitRadius) ==
    (orbitRadius * ISqrt(300000 * orbitRadius)) \div 10

\* options: [parentPlanetId, orbitRadius, startAngle]; orbitSpeed is in 1/1000
\* angle unit per 1/3 ms
createSatellite(options, parentPosition, satelliteId) ==
    [ id |-> satelliteId,
      parentPlanetId |-> options.parentPlanetId,
      position |-> Vec(parentPosition.x + Cos(options.startAngle) * options.orbitRadius,
                       parentPosition.y + Sin(options.startAngle) * options.orbitRadius),
      orbitRadius |-> options.orbitRadius,
      orbitAngle |-> options.startAngle,
      orbitSpeed |-> (TWO_PI * 1000) \div orbitPeriodMs(options.orbitRadius),
      lastTriggerAngle |-> options.startAngle ]

\* 0.3 rad
WINDOW == 8594

\* the wrap-around case alone
didCrossTopWrapOnly(prevTop, currTop) ==
    prevTop > TWO_PI - WINDOW /\ currTop < WINDOW

didCrossTop(prevTop, currTop) ==
    \/ prevTop > TWO_PI - WINDOW /\ currTop < WINDOW
    \/ prevTop > WINDOW /\ currTop <= WINDOW

\* an update that takes the orbit speed per second
updateSatelliteInSeconds(satellite, parentPosition, deltaMs) ==
    LET newAngle == satellite.orbitAngle + (satellite.orbitSpeed * deltaMs) \div 1000000
        newPosition == Vec(parentPosition.x + Cos(newAngle) * satellite.orbitRadius,
                           parentPosition.y + Sin(newAngle) * satellite.orbitRadius)
        prevTop == angleFromTop(parentPosition, satellite.position)
        currTop == angleFromTop(parentPosition, newPosition)
        triggered == didCrossTop(prevTop, currTop)
    IN  [ satellite |-> [satellite EXCEPT
                            !.position = newPosition,
                            !.orbitAngle = newAngle,
                            !.lastTriggerAngle =
                                IF triggered THEN newAngle ELSE satellite.lastTriggerAngle],
          triggered |-> triggered,
          triggerVolume |-> distanceToVolume(satellite.orbitRadius) ]

updateSatellite(satellite, parentPosition, deltaMs) ==
    LET newAngle == satellite.orbitAngle + (satellite.orbitSpeed * deltaMs) \div 1000
        newPosition == Vec(parentPosition.x + Cos(newAngle) * satellite.orbitRadius,
                           parentPosition.y + Sin(newAngle) * satellite.orbitRadius)
        prevTop == angleFromTop(parentPosition, satellite.position)
        currTop == angleFromTop(parentPosition, newPosition)
        triggered == didCrossTop(prevTop, currTop)
    IN  [ satellite |-> [satellite EXCEPT
                            !.position = newPosition,
                            !.orbitAngle = newAngle,
                            !.lastTriggerAngle =
                                IF triggered THEN newAngle ELSE satellite.lastTriggerAngle],
          triggered |-> triggered,
          triggerVolume |-> distanceToVolume(satellite.orbitRadius) ]

\* The result of a subtraction of doubles: the exact difference rounded to 53
\* significant bits, ties to even
roundToDouble(hi, lo) ==
    LET ulp == IF hi >= 2^28 THEN 16 ELSE IF hi >= 2^27 THEN 8
               ELSE IF hi >= 2^26 THEN 4 ELSE IF hi >= 2^25 THEN 2 ELSE 1
        q == lo \div ulp
        r == lo % ulp
        up == IF 2 * r > ulp \/ (2 * r = ulp /\ q % 2 = 1) THEN 1 ELSE 0
    IN  IF (q + up) * ulp = 2^28 THEN [hi |-> hi + 1, lo |-> 0]
        ELSE [hi |-> hi, lo |-> (q + up) * ulp]

\* the decay without its floor at 0
decayBelowZero(currentPulse, deltaMs) ==
    [currentPulse EXCEPT !.hi = @ - PULSE_DECAY_RATE[deltaMs].hi - 1]

decayPulse(currentPulse, deltaMs) ==
    LET step == PULSE_DECAY_RATE[deltaMs]
        borrow == IF currentPulse.lo < step.lo THEN 1 ELSE 0
        hi == currentPulse.hi - step.hi - borrow
        lo == currentPulse.lo - step.lo + borrow * 2^28
    IN  IF hi < 0 THEN PULSE_NONE ELSE roundToDouble(hi, lo)

(***************************************************************************)
(* lib/physics/engine.ts, lib/physics/loop.ts                              *)
(* bs is the heap of rigid bodies (body id -> body), w the sequence of the *)
(* ids of the bodies in the world, in insertion order.                     *)
(***************************************************************************)
SeqToSet(q) == {q[i] : i \in 1..Len(q)}

\* Matter.Composite.add
addBody(w, bodyId) == Append(w, bodyId)

\* Matter.Composite.remove
removeBody(w, bodyId) == SelectSeq(w, LAMBDA b : b # bodyId)

captureSnapshot(bs, w) ==
    LET dynamic == SelectSeq(w, LAMBDA b : ~bs[b].isStatic)
    IN  [ i \in 1..Len(dynamic) |->
            [ bodyId |-> bs[dynamic[i]].id,
              position |-> bs[dynamic[i]].position,
              velocity |-> bs[dynamic[i]].velocity,
              angle |-> bs[dynamic[i]].angle,
              angularVelocity |-> bs[dynamic[i]].angularVelocity ] ]

\* Matter.Body.setPosition, setVelocity, setAngle, setAngularVelocity: the
\* velocity given is per base step, and the body's last step delta rescales
\* it, which is the same as the body having made a base step; a body whose
\* last step was 0 is left without displacement
setKinematics(body, snap) ==
    [body EXCEPT !.position = snap.position,
                 !.velocity = IF body.deltaTime = 0 THEN ZeroVec ELSE snap.velocity,
                 !.angle = snap.angle,
                 !.angularVelocity = IF body.deltaTime = 0 THEN 0
                                     ELSE snap.angularVelocity,
                 !.deltaTime = IF body.deltaTime = 0 THEN 0 ELSE PHYSICS_DELTA_MS]

RECURSIVE restoreUntilMissing(_, _, _)
\* a restore that stops at the first entry it has no body for
restoreUntilMissing(bs, w, snapshot) ==
    IF snapshot = <<>> THEN bs
    ELSE IF Head(snapshot).bodyId \notin SeqToSet(w) \/ bs[Head(snapshot).bodyId].isStatic
         THEN bs
         ELSE restoreUntilMissing(
                  [bs EXCEPT ![Head(snapshot).bodyId] = setKinematics(@, Head(snapshot))],
                  w, Tail(snapshot))

RECURSIVE restoreSnapshot(_, _, _)
restoreSnapshot(bs, w, snapshot) ==
    IF snapshot = <<>> THEN bs
    ELSE LET snap == Head(snapshot)
             skip == snap.bodyId \notin SeqToSet(w) \/ bs[snap.bodyId].isStatic
             restored == [bs EXCEPT ![snap.bodyId] = setKinematics(@, snap)]
         IN  restoreSnapshot(IF skip THEN bs ELSE restored, w, Tail(snapshot))

RECURSIVE SumForces(_, _, _, _)
\* the pulls of the gravity sources on body, summed in source order
SumForces(bs, body, sources, strength) ==
    IF sources = <<>> THEN ZeroVec
    ELSE LET source == Head(sources)
             rest == SumForces(bs, body, Tail(sources), strength)
             force == gravitationalForce(body.position, bs[source.body].position,
                                         body.mass, source.mass, strength)
         IN  IF source.body = body.id THEN rest
             ELSE Vec(force.x + rest.x, force.y + rest.y)

\* a gravity that pulls on the static bodies too
applyGravityToStatic(bs, w, sources, strength) ==
    [ b \in DOMAIN bs |->
        IF b \in SeqToSet(w)
        THEN [bs[b] EXCEPT !.force = SumForces(bs, bs[b], sources, strength)]
        ELSE bs[b] ]

\* sources: sequence of [body, mass]
applyGravity(bs, w, sources, strength) ==
    [ b \in DOMAIN bs |->
        IF b \in SeqToSet(w) /\ ~bs[b].isStatic
        THEN LET totalForce == SumForces(bs, bs[b], sources, strength)
             IN  [bs[b] EXCEPT !.force = Vec(@.x + totalForce.x, @.y + totalForce.y)]
        ELSE bs[b] ]

\* Matter.Body.update for a step of delta: the displacement of the last step
\* is rescaled by delta over the delta of that step (delta itself when that
\* was 0), the force adds force / mass * delta^2, the position moves by the
\* new velocity and the body remembers delta.
BodyUpdate(body, delta) ==
    LET last == IF body.deltaTime # 0 THEN body.deltaTime ELSE delta
        sq == delta * delta
        fixedSq == PHYSICS_DELTA_MS * PHYSICS_DELTA_MS
        ax == RoundDiv(body.force.x, body.mass)
        ay == RoundDiv(body.force.y, body.mass)
        vx == IF last = 0 THEN 0
              ELSE Sign(body.velocity.x) * MulDiv(Abs(body.velocity.x), delta, last)
                   + Sign(ax) * MulDiv(Abs(ax), sq, fixedSq)
        vy == IF last = 0 THEN 0
              ELSE Sign(body.velocity.y) * MulDiv(Abs(body.velocity.y), delta, last)
                   + Sign(ay) * MulDiv(Abs(ay), sq, fixedSq)
    IN  [body EXCEPT !.velocity = Vec(vx, vy),
                     !.position = Vec(body.position.x + RoundDiv(vx, 1000),
                                      body.position.y + RoundDiv(vy, 1000)),
                     !.angle = body.angle +
                               (IF last = 0 THEN 0
                                ELSE (body.angularVelocity * delta) \div last),
                     !.force = ZeroVec,
                     !.deltaTime = delta]

\* Matter.Engine.update for a sub-step of stepMs, which the engine multiplies
\* by its own time scale before use (the product is delta here): Verlet
\* integration of every non-static body of the world, then the forces are
\* cleared.  Collision response is not modelled.
EngineUpdate(bs, w, delta) ==
    [ b \in DOMAIN bs |->
        IF b \in SeqToSet(w) /\ ~bs[b].isStatic THEN BodyUpdate(bs[b], delta)
        ELSE IF b \in SeqToSet(w) THEN [bs[b] EXCEPT !.force = ZeroVec]
        ELSE bs[b] ]

\* 1000 / 60 ms
FIXED_STEP_MS == 50

\* the count rounded up instead of to the nearest
SubStepsCeil(scaledDelta) ==
    Max(1, (scaledDelta + FIXED_STEP_MS - 1) \div FIXED_STEP_MS)

\* Math.max(1, Math.round(scaledDelta / FIXED_STEP_MS))
SubSteps(scaledDelta) ==
    Max(1, (2 * scaledDelta + FIXED_STEP_MS) \div (2 * FIXED_STEP_MS))

RECURSIVE StepLoop(_, _, _, _, _, _, _)
\* the sub-step loop of tickSimulation: gravity, then the integrator, i times.
\* run holds the bodies and the calls made so far, with the force on each
\* body as a call of applyGravity left it; the engine multiplies the stepMs
\* it is called with by its own time scale
StepLoop(run, w, sources, strength, stepMs, engineTimeScale, i) ==
    IF i = 0 THEN run
    ELSE LET next ==
             [ bodies |-> EngineUpdate(applyGravity(run.bodies, w, sources, strength),
                                       w, stepMs * engineTimeScale),
               calls |-> run.calls \o
                   << [ fn |-> "applyGravity", arg |-> strength,
                        forces |-> [b \in DOMAIN run.bodies |->
                            applyGravity(run.bodies, w, sources, strength)[b].force] ],
                      [ fn |-> "Engine.update", arg |-> stepMs, forces |-> <<>> ] >> ]
         IN  \* next is worked out before the loop goes on
             IF next.calls # <<>> /\ next.bodies # <<>>
             THEN StepLoop(next, w, sources, strength, stepMs, engineTimeScale, i - 1)
             ELSE run

\* engine.ts setTimeScale: the engine's timing.timeScale and config.timeScale
\* are one value in the model
setTimeScale(config, timeScale) ==
    [config EXCEPT !.timeScale = Max(0, Min(10, timeScale))]

setGravityStrength(config, gravity) ==
    [config EXCEPT !.gravity = Max(0, Min(10, gravity))]

(***************************************************************************)
(* lib/audio/synthManager.ts: the voice table maps a planet id to the type *)
(* of its synth.                                                           *)
(***************************************************************************)
addSynth(voices, planetId, synthType) ==
    IF planetId \in DOMAIN voices THEN voices
    ELSE IF Cardinality(DOMAIN voices) >= MAX_PLANETS THEN voices
    ELSE [p \in DOMAIN voices \cup {planetId} |->
            IF p = planetId THEN synthType ELSE voices[p]]

removeSynth(voices, planetId) ==
    [p \in DOMAIN voices \ {planetId} |-> voices[p]]

(***************************************************************************)
(* lib/simulation/simulation.ts                                            *)
(* A simulation state is a record of the aggregate (star, planets,         *)
(* satellites, isPlaying, timeScale, gravityStrength), the trigger pulses, *)
(* and the objects the orchestrator mutates in place: the rigid-body heap  *)
(* and world, the engine configuration, the loop state, the voice table    *)
(* and the module-level id counters.                                       *)
(***************************************************************************)
createSimulation ==
    [ star |-> Null,
      planets |-> <<>>,
      satellites |-> <<>>,
      isPlaying |-> FALSE,
      timeScale |-> 1,
      gravityStrength |-> 1,
      triggerPulses |-> <<>>,
      bodies |-> <<>>,
      world |-> <<>>,
      engineConfig |-> [gravity |-> 1, timeScale |-> 1],
      loopState |-> [isPaused |-> FALSE, initialSnapshot |-> <<>>],
      synths |-> <<>>,
      nextStarId |-> 1,
      nextPlanetId |-> 1,
      nextSatelliteId |-> 1,
      nextBodyId |-> 1 ]

\* the heap with one more body
Allocate(bs, body) ==
    [b \in DOMAIN bs \cup {body.id} |-> IF b = body.id THEN body ELSE bs[b]]

\* the heap without a body nothing refers to any more
Release(bs, bodyId) ==
    [b \in DOMAIN bs \ {bodyId} |-> bs[b]]

FindPlanet(sim, planetId) ==
    SelectSeq(sim.planets, LAMBDA p : p.id = planetId)

\* an add that leaves the body of the previous star in the world
addStarKeepingOld(sim, options) ==
    LET made == createStar(options, sim.nextStarId, sim.nextBodyId)
    IN  [sim EXCEPT !.star = made.star,
                    !.bodies = Allocate(sim.bodies, made.body),
                    !.world = addBody(sim.world, made.body.id),
                    !.nextStarId = @ + 1,
                    !.nextBodyId = @ + 1]

addStar(sim, options) ==
    LET made == createStar(options, sim.nextStarId, sim.nextBodyId)
        w0 == IF sim.star # Null THEN removeBody(sim.world, sim.star.physicsBody)
              ELSE sim.world
        bs0 == IF sim.star # Null THEN Release(sim.bodies, sim.star.physicsBody)
               ELSE sim.bodies
    IN  [sim EXCEPT !.star = made.star,
                    !.bodies = Allocate(bs0, made.body),
                    !.world = addBody(w0, made.body.id),
                    !.nextStarId = @ + 1,
                    !.nextBodyId = @ + 1]

\* an add that lets one planet too many in
addPlanetOffByOne(sim, options) ==
    IF Len(sim.planets) > MAX_PLANETS THEN sim
    ELSE LET made == createPlanet(options, sim.star, sim.gravityStrength,
                                  sim.nextPlanetId, sim.nextBodyId)
         IN  [sim EXCEPT !.planets = Append(@, made.planet),
                         !.bodies = Allocate(sim.bodies, made.body),
                         !.world = addBody(@, made.body.id),
                         !.synths = addSynth(@, made.planet.id, made.planet.synthType),
                         !.nextPlanetId = @ + 1,
                         !.nextBodyId = @ + 1]

addPlanet(sim, options) ==
    IF Len(sim.planets) >= MAX_PLANETS THEN sim
    ELSE LET made == createPlanet(options, sim.star, sim.gravityStrength,
                                  sim.nextPlanetId, sim.nextBodyId)
         IN  [sim EXCEPT !.planets = Append(@, made.planet),
                         !.bodies = Allocate(sim.bodies, made.body),
                         !.world = addBody(@, made.body.id),
                         !.synths = addSynth(@, made.planet.id, made.planet.synthType),
                         !.nextPlanetId = @ + 1,
                         !.nextBodyId = @ + 1]

\* an update that changes the planet record and leaves its voice as it is
updateWithoutSwap(sim, planetId, options) ==
    IF FindPlanet(sim, planetId) = <<>> THEN sim
    ELSE LET planet == Head(FindPlanet(sim, planetId))
             scalars == [planet EXCEPT
                            !.mass = IF "mass" \in options.given THEN options.mass ELSE @,
                            !.rotationSpeed = IF "rotationSpeed" \in options.given
                                              THEN options.rotationSpeed ELSE @,
                            !.synthType = IF "synthType" \in options.given
                                          THEN options.synthType ELSE @]
             updatedPlanet == IF "noteSequence" \in options.given
                              THEN setPlanetNoteSequence(scalars, options.noteSequence)
                              ELSE scalars
         IN  [sim EXCEPT
                !.planets = [i \in 1..Len(@) |->
                                IF @[i].id = planetId THEN updatedPlanet ELSE @[i]]]

\* options: [given, mass, noteSequence, rotationSpeed, synthType], where given
\* is the set of the names of the options present
updatePlanetProperties(sim, planetId, options) ==
    IF FindPlanet(sim, planetId) = <<>> THEN sim
    ELSE LET planet == Head(FindPlanet(sim, planetId))
             swap == "synthType" \in options.given /\ options.synthType # planet.synthType
             scalars == [planet EXCEPT
                            !.mass = IF "mass" \in options.given THEN options.mass ELSE @,
                            !.rotationSpeed = IF "rotationSpeed" \in options.given
                                              THEN options.rotationSpeed ELSE @,
                            !.synthType = IF "synthType" \in options.given
                                          THEN options.synthType ELSE @]
             updatedPlanet == IF "noteSequence" \in options.given
                              THEN setPlanetNoteSequence(scalars, options.noteSequence)
                              ELSE scalars
         IN  [sim EXCEPT
                !.synths = IF swap
                           THEN addSynth(removeSynth(@, planetId), planetId, options.synthType)
                           ELSE @,
                !.planets = [i \in 1..Len(@) |->
                                IF @[i].id = planetId THEN updatedPlanet ELSE @[i]]]

\* a removal that leaves the satellites of the planet behind
removePlanetOnly(sim, planetId) ==
    IF FindPlanet(sim, planetId) = <<>> THEN sim
    ELSE LET planet == Head(FindPlanet(sim, planetId))
         IN  [sim EXCEPT
                !.world = removeBody(@, planet.physicsBody),
                !.bodies = Release(@, planet.physicsBody),
                !.synths = removeSynth(@, planetId),
                !.planets = SelectSeq(@, LAMBDA p : p.id # planetId)]

\* a removal that leaves the body of the planet in the world
removePlanetKeepingBody(sim, planetId) ==
    IF FindPlanet(sim, planetId) = <<>> THEN sim
    ELSE LET keep == {s.id : s \in {t \in SeqToSet(sim.satellites) :
                                        t.parentPlanetId # planetId}}
         IN  [sim EXCEPT
                !.synths = removeSynth(@, planetId),
                !.triggerPulses = [id \in DOMAIN @ \cap keep |-> @[id]],
                !.planets = SelectSeq(@, LAMBDA p : p.id # planetId),
                !.satellites = SelectSeq(@, LAMBDA t : t.parentPlanetId # planetId)]

\* a removal that leaves the pulses of the planet's satellites behind
removePlanetKeepingPulses(sim, planetId) ==
    IF FindPlanet(sim, planetId) = <<>> THEN sim
    ELSE LET planet == Head(FindPlanet(sim, planetId))
         IN  [sim EXCEPT
                !.world = removeBody(@, planet.physicsBody),
                !.bodies = Release(@, planet.physicsBody),
                !.synths = removeSynth(@, planetId),
                !.planets = SelectSeq(@, LAMBDA p : p.id # planetId),
                !.satellites = SelectSeq(@, LAMBDA t : t.parentPlanetId # planetId)]

removePlanet(sim, planetId) ==
    IF FindPlanet(sim, planetId) = <<>> THEN sim
    ELSE LET planet == Head(FindPlanet(sim, planetId))
             keep == {s.id : s \in {t \in SeqToSet(sim.satellites) :
                                        t.parentPlanetId # planetId}}
         IN  [sim EXCEPT
                !.world = removeBody(@, planet.physicsBody),
                !.bodies = Release(@, planet.physicsBody),
                !.synths = removeSynth(@, planetId),
                !.triggerPulses = [id \in DOMAIN @ \cap keep |-> @[id]],
                !.planets = SelectSeq(@, LAMBDA p : p.id # planetId),
                !.satellites = SelectSeq(@, LAMBDA t : t.parentPlanetId # planetId)]

\* an add that does not look for the parent: a satellite of an unknown planet
\* is put about the origin
addSatelliteUnchecked(sim, options) ==
    IF Len(sim.satellites) >= MAX_SATELLITES THEN sim
    ELSE LET found == FindPlanet(sim, options.parentPlanetId)
             parentPosition == IF found = <<>> THEN ZeroVec ELSE Head(found).position
         IN  [sim EXCEPT
                !.satellites = Append(@, createSatellite(options, parentPosition,
                                                         sim.nextSatelliteId)),
                !.nextSatelliteId = @ + 1]

\* options: [parentPlanetId, orbitRadius, startAngle]
addSatellite(sim, options) ==
    IF Len(sim.satellites) >= MAX_SATELLITES THEN sim
    ELSE IF FindPlanet(sim, options.parentPlanetId) = <<>> THEN sim
    ELSE LET planet == Head(FindPlanet(sim, options.parentPlanetId))
         IN  [sim EXCEPT
                !.satellites = Append(@, createSatellite(options, planet.position,
                                                         sim.nextSatelliteId)),
                !.nextSatelliteId = @ + 1]

removeSatellite(sim, satelliteId) ==
    [sim EXCEPT
        !.triggerPulses = [id \in DOMAIN @ \ {satelliteId} |-> @[id]],
        !.satellites = SelectSeq(@, LAMBDA t : t.id # satelliteId)]

\* synthManager.triggerNote: the events the audio sink receives, none when
\* the planet has no voice
triggerNote(voices, planetId, note, duration, volume) ==
    IF planetId \notin DOMAIN voices THEN <<>>
    ELSE << [ planetId |-> planetId, instrument |-> voices[planetId],
              note |-> note, duration |-> duration, volume |-> volume ] >>

\* 0.7, the volume of a planet's own note
PLANET_NOTE_VOLUME == 42000

RECURSIVE Flatten(_)
Flatten(qs) == IF qs = <<>> THEN <<>> ELSE Head(qs) \o Flatten(Tail(qs))

\* tickSimulation, physics phase: the gravity sources (the star, then the
\* planets with their own mass field), and the fixed sub-steps; the bodies
\* after them and the calls made
TickPhysics(sim, deltaMs) ==
    LET gravitySources ==
            << [body |-> sim.star.physicsBody, mass |-> sim.star.mass] >> \o
            [i \in 1..Len(sim.planets) |->
                [body |-> sim.planets[i].physicsBody, mass |-> sim.planets[i].mass]]
        scaledDelta == deltaMs * sim.timeScale
        steps == SubSteps(scaledDelta)
        stepMs == scaledDelta \div steps
    IN  StepLoop([bodies |-> sim.bodies, calls |-> <<>>], sim.world, gravitySources,
                 sim.gravityStrength, stepMs, sim.engineConfig.timeScale, steps)

\* tickSimulation, planet phase: the result of updatePlanet for each planet,
\* with the events it sends
TickPlanets(sim, deltaMs, stepped) ==
    [i \in 1..Len(sim.planets) |->
        LET res == updatePlanet(sim.planets[i], sim.star, deltaMs,
                                stepped.bodies[sim.planets[i].physicsBody])
        IN  [ planet |-> res.planet,
              noteAdvanced |-> res.noteAdvanced,
              events |-> IF res.noteAdvanced /\ res.newNote # Null
                         THEN triggerNote(sim.synths, sim.planets[i].id, res.newNote,
                                          noteDurationToMs(res.planet.rotationSpeed,
                                                           sim.star.bpm),
                                          PLANET_NOTE_VOLUME)
                         ELSE <<>> ]]

\* tickSimulation, satellite phase: a satellite whose parent is not among the
\* updated planets is passed through; the others are updated about their
\* parent's updated position and, when they trigger, send the parent's
\* current note if it has one
\* a satellite phase on the scaled time of the physics
TickSatellitesScaled(sim, deltaMs, updatedPlanets) ==
    [i \in 1..Len(sim.satellites) |->
        LET satellite == sim.satellites[i]
            found == SelectSeq(updatedPlanets, LAMBDA p : p.id = satellite.parentPlanetId)
        IN  IF found = <<>>
            THEN [satellite |-> satellite, orphan |-> TRUE, triggered |-> FALSE,
                  events |-> <<>>]
            ELSE LET parentPlanet == Head(found)
                     res == updateSatellite(satellite, parentPlanet.position,
                                            deltaMs * sim.timeScale)
                     note == getCurrentNote(parentPlanet, sim.star)
                 IN  [ satellite |-> res.satellite, orphan |-> FALSE,
                       triggered |-> res.triggered,
                       events |-> IF res.triggered /\ note # Null
                                  THEN triggerNote(sim.synths, parentPlanet.id, note,
                                           noteDurationToMs(parentPlanet.rotationSpeed,
                                                            sim.star.bpm),
                                           res.triggerVolume)
                                  ELSE <<>> ]]

TickSatellites(sim, deltaMs, updatedPlanets) ==
    [i \in 1..Len(sim.satellites) |->
        LET satellite == sim.satellites[i]
            found == SelectSeq(updatedPlanets, LAMBDA p : p.id = satellite.parentPlanetId)
        IN  IF found = <<>>
            THEN [satellite |-> satellite, orphan |-> TRUE, triggered |-> FALSE,
                  events |-> <<>>]
            ELSE LET parentPlanet == Head(found)
                     res == updateSatellite(satellite, parentPlanet.position, deltaMs)
                     note == getCurrentNote(parentPlanet, sim.star)
                 IN  [ satellite |-> res.satellite, orphan |-> FALSE,
                       triggered |-> res.triggered,
                       events |-> IF res.triggered /\ note # Null
                                  THEN triggerNote(sim.synths, parentPlanet.id, note,
                                           noteDurationToMs(parentPlanet.rotationSpeed,
                                                            sim.star.bpm),
                                           res.triggerVolume)
                                  ELSE <<>> ]]

\* tickSimulation, the pulses: 1 for a satellite that triggered, decayed for
\* one that did not and has a positive pulse
TickPulses(sim, deltaMs, satelliteResults) ==
    LET live == {i \in 1..Len(sim.satellites) : ~satelliteResults[i].orphan}
        hit == {sim.satellites[i].id : i \in {j \in live : satelliteResults[j].triggered}}
        quiet == {sim.satellites[i].id : i \in {j \in live : ~satelliteResults[j].triggered}}
    IN  [id \in DOMAIN sim.triggerPulses \cup hit |->
            IF id \in hit THEN PULSE_FULL
            ELSE IF id \in quiet /\ sim.triggerPulses[id] # PULSE_NONE
                 THEN decayPulse(sim.triggerPulses[id], deltaMs)
                 ELSE sim.triggerPulses[id]]

\* tickSimulation, the returned state, the events sent to the audio sink in
\* order, the planets whose cursor advanced and the satellites that triggered
TickResult(sim, stepped, planetResults, satelliteResults, newPulses) ==
    [ sim |-> [sim EXCEPT
                  !.bodies = stepped.bodies,
                  !.triggerPulses = newPulses,
                  !.planets = [i \in 1..Len(sim.planets) |-> planetResults[i].planet],
                  !.satellites = [i \in 1..Len(sim.satellites) |->
                                     satelliteResults[i].satellite]],
      events |-> Flatten([i \in 1..Len(sim.planets) |-> planetResults[i].events]) \o
                 Flatten([i \in 1..Len(sim.satellites) |-> satelliteResults[i].events]),
      advanced |-> {sim.planets[i].id :
                       i \in {j \in 1..Len(sim.planets) : planetResults[j].noteAdvanced}},
      triggered |-> {sim.satellites[i].id :
                        i \in {j \in 1..Len(sim.satellites) :
                                  satelliteResults[j].triggered}},
      calls |-> stepped.calls ]

TickAfterSatellites(sim, deltaMs, stepped, planetResults, satelliteResults) ==
    TickResult(sim, stepped, planetResults, satelliteResults,
               TickPulses(sim, deltaMs, satelliteResults))

\* a satellite phase that is given the planets as they were before the tick
TickAfterPlanetsStale(sim, deltaMs, stepped, planetResults) ==
    TickAfterSatellites(sim, deltaMs, stepped, planetResults,
        TickSatellites(sim, deltaMs, sim.planets))

TickAfterPlanets(sim, deltaMs, stepped, planetResults) ==
    TickAfterSatellites(sim, deltaMs, stepped, planetResults,
        TickSatellites(sim, deltaMs,
                       [i \in 1..Len(sim.planets) |-> planetResults[i].planet]))

\* a planet phase that reads the bodies as they were before the sub-steps
TickPlanetsBeforePhysics(sim, deltaMs, stepped) ==
    TickAfterPlanets(sim, deltaMs, stepped,
                     TickPlanets(sim, deltaMs, [stepped EXCEPT !.bodies = sim.bodies]))

TickAfterPhysics(sim, deltaMs, stepped) ==
    TickAfterPlanets(sim, deltaMs, stepped, TickPlanets(sim, deltaMs, stepped))

\* a tick that does not look at isPlaying
tickWhilePaused(sim, deltaMs) ==
    IF sim.star = Null
    THEN [sim |-> sim, events |-> <<>>, advanced |-> {}, triggered |-> {}, calls |-> <<>>]
    ELSE TickAfterPhysics(sim, deltaMs, TickPhysics(sim, deltaMs))

tickSimulation(sim, deltaMs) ==
    IF ~sim.isPlaying \/ sim.star = Null
    THEN [sim |-> sim, events |-> <<>>, advanced |-> {}, triggered |-> {}, calls |-> <<>>]
    ELSE TickAfterPhysics(sim, deltaMs, TickPhysics(sim, deltaMs))

playSimulation(sim) ==
    [sim EXCEPT !.loopState = [isPaused |-> FALSE,
                               initialSnapshot |-> captureSnapshot(sim.bodies, sim.world)],
                !.isPlaying = TRUE]

pauseSimulation(sim) ==
    [sim EXCEPT !.loopState.isPaused = TRUE,
                !.isPlaying = FALSE]

\* a rewind that pauses but leaves the bodies where they are
rewindWithoutRestore(sim) ==
    [sim EXCEPT !.loopState.isPaused = TRUE,
                !.isPlaying = FALSE]

\* a rewind that restores the bodies and leaves the play status as it is
rewindKeepsPlaying(sim) ==
    [sim EXCEPT !.loopState.isPaused = TRUE,
                !.bodies = restoreSnapshot(sim.bodies, sim.world,
                                           sim.loopState.initialSnapshot)]

\* a rewind that also silences the trigger pulses
rewindClearsPulses(sim) ==
    [sim EXCEPT !.loopState.isPaused = TRUE,
                !.bodies = restoreSnapshot(sim.bodies, sim.world,
                                           sim.loopState.initialSnapshot),
                !.triggerPulses = [id \in DOMAIN @ |-> PULSE_NONE],
                !.isPlaying = FALSE]

rewindSimulation(sim) ==
    [sim EXCEPT !.loopState.isPaused = TRUE,
                !.bodies = restoreSnapshot(sim.bodies, sim.world,
                                           sim.loopState.initialSnapshot),
                !.isPlaying = FALSE]

setSimulationTimeScale(sim, scale) ==
    [sim EXCEPT !.engineConfig = setTimeScale(@, scale),
                !.timeScale = scale]

setSimulationGravity(sim, gravity) ==
    [sim EXCEPT !.engineConfig = setGravityStrength(@, gravity),
                !.gravityStrength = gravity]

(***************************************************************************)
(* State                                                                   *)
(***************************************************************************)
VARIABLES
    star, planets, satellites, isPlaying, timeScale, gravityStrength, \* aggregate
    triggerPulses,      \* satellite id -> pulse
    bodies, world,      \* rigid-body heap and the ids of the bodies in the world
    engineConfig,       \* engine gravity and timing.timeScale
    loopState,          \* isPaused, initialSnapshot
    synths,             \* voice table
    nextStarId, nextPlanetId, nextSatelliteId, nextBodyId,
    audioLog,           \* the events the audio sink received from the last operation
    lastOp,             \* the last operation, its target, whether it took effect,
                        \* the satellites it removed and the calls its sub-steps
                        \* made
    ticks,              \* physics sub-steps run so far
    hist,               \* history of snapshot captures
    revs,               \* planet id -> true zero-axis crossings and reported advances
    passes,             \* satellite id -> start angle, triggers reported and
                        \* tick time since the last of them
    applied             \* a pure function applied outside the orchestrator: its
                        \* name, its inputs and its results

progVars == << star, planets, satellites, isPlaying, timeScale, gravityStrength,
               triggerPulses, bodies, world, engineConfig, loopState, synths,
               nextStarId, nextPlanetId, nextSatelliteId, nextBodyId >>

vars == << progVars, audioLog, lastOp, ticks, hist, revs, passes, applied >>

\* the current simulation state as the record the operations work on
Sim ==
    [ star |-> star, planets |-> planets, satellites |-> satellites,
      isPlaying |-> isPlaying, timeScale |-> timeScale,
      gravityStrength |-> gravityStrength, triggerPulses |-> triggerPulses,
      bodies |-> bodies, world |-> world, engineConfig |-> engineConfig,
      loopState |-> loopState, synths |-> synths,
      nextStarId |-> nextStarId, nextPlanetId |-> nextPlanetId,
      nextSatelliteId |-> nextSatelliteId, nextBodyId |-> nextBodyId ]

\* the state returned by an operation becomes the current state
Becomes(r) ==
    /\ applied' = applied
    /\ star' = r.star
    /\ planets' = r.planets
    /\ satellites' = r.satellites
    /\ isPlaying' = r.isPlaying
    /\ timeScale' = r.timeScale
    /\ gravityStrength' = r.gravityStrength
    /\ triggerPulses' = r.triggerPulses
    /\ bodies' = r.bodies
    /\ world' = r.world
    /\ engineConfig' = r.engineConfig
    /\ loopState' = r.loopState
    /\ synths' = r.synths
    /\ nextStarId' = r.nextStarId
    /\ nextPlanetId' = r.nextPlanetId
    /\ nextSatelliteId' = r.nextSatelliteId
    /\ nextBodyId' = r.nextBodyId

Op(name, id, hit) ==
    [op |-> name, id |-> id, hit |-> hit, advanced |-> {}, triggered |-> {},
     removed |-> {}, calls |-> <<>>]

\* position, velocity, angle and angular velocity of the non-static bodies
\* of the world
Kinematics(bs, w) ==
    [ b \in {c \in SeqToSet(w) : ~bs[c].isStatic} |->
        [ position |-> bs[b].position, velocity |-> bs[b].velocity,
          angle |-> bs[b].angle, angularVelocity |-> bs[b].angularVelocity ] ]

NoHistory ==
    [ saved |-> FALSE, first |-> <<>>, last |-> <<>>,
      firstIntact |-> FALSE, lastIntact |-> FALSE, moved |-> FALSE ]

\* a body entered or left the world
WorldChanged(h) == [h EXCEPT !.firstIntact = FALSE, !.lastIntact = FALSE]

\* which side of the reference axis (angle 0 from the star) a position is on
Rel(r, position) ==
    Vec(position.x - (IF r.star # Null THEN r.star.position.x ELSE 0),
        position.y - (IF r.star # Null THEN r.star.position.y ELSE 0))

\* the crossings of the reference half-axis a planet has really made, counted
\* from the positions of its body: the body is strictly on one side of the
\* axis, then strictly on the other, having passed the axis at angle 0
Track(old, rel, advanced) ==
    LET side == Sign(rel.y)
        crossed == side # 0 /\ old.side # 0 /\ side # old.side /\ rel.x > 0
    IN  [ side |-> IF side # 0 THEN side ELSE old.side,
          crossedNow |-> crossed,
          crossings |-> old.crossings + (IF crossed THEN 1 ELSE 0),
          advances |-> old.advances + (IF advanced THEN 1 ELSE 0) ]

\* the crossing record of a planet just placed
Placed(r, planet) ==
    [ side |-> Sign(Rel(r, planet.position).y), crossedNow |-> FALSE,
      crossings |-> 0, advances |-> 0 ]

PlanetIds(r) == {r.planets[i].id : i \in 1..Len(r.planets)}

SatelliteIds(r) == {r.satellites[i].id : i \in 1..Len(r.satellites)}

PlanetOf(r, id) == Head(SelectSeq(r.planets, LAMBDA p : p.id = id))

SatelliteOf(r, id) == Head(SelectSeq(r.satellites, LAMBDA t : t.id = id))

\* the crossing record of the planets of r: kept for a known planet, fresh
\* for a new one, dropped for a removed one
SyncRevs(r) ==
    [ id \in PlanetIds(r) |->
        IF id \in DOMAIN revs THEN revs[id]
        ELSE Placed(r, PlanetOf(r, id)) ]

SyncPasses(r) ==
    [ id \in SatelliteIds(r) |->
        IF id \in DOMAIN passes THEN passes[id]
        ELSE [start |-> SatelliteOf(r, id).orbitAngle, triggers |-> 0, quiet |-> 0] ]

\* an operation other than a tick returned r
Returns(r, op) ==
    /\ Becomes(r)
    /\ audioLog' = <<>>
    /\ lastOp' = [op EXCEPT !.removed = SatelliteIds(Sim) \ SatelliteIds(r)]
    /\ ticks' = ticks
    /\ revs' = SyncRevs(r)
    /\ passes' = SyncPasses(r)

\* the current state is r (the initial states of a specification)
StartsAs(r) ==
    /\ star = r.star
    /\ planets = r.planets
    /\ satellites = r.satellites
    /\ isPlaying = r.isPlaying
    /\ timeScale = r.timeScale
    /\ gravityStrength = r.gravityStrength
    /\ triggerPulses = r.triggerPulses
    /\ bodies = r.bodies
    /\ world = r.world
    /\ engineConfig = r.engineConfig
    /\ loopState = r.loopState
    /\ synths = r.synths
    /\ nextStarId = r.nextStarId
    /\ nextPlanetId = r.nextPlanetId
    /\ nextSatelliteId = r.nextSatelliteId
    /\ nextBodyId = r.nextBodyId

(***************************************************************************)
(* Inputs.  Positions are 1/100 px.  Collision response is not modelled,   *)
(* so the planets are placed on orbits of different radii, where they      *)
(* never touch.                                                            *)
(***************************************************************************)
I4 == [degree |-> "I", octave |-> 4]

V4 == [degree |-> "V", octave |-> 4]

\* a token that is no scale degree
VIII4 == [degree |-> "VIII", octave |-> 4]

StarOptions ==
    { [ x |-> 0, y |-> 0, mass |-> STAR_DEFAULT_MASS, bpm |-> STAR_DEFAULT_BPM,
        key |-> "C", mode |-> "Ionian" ] }

PlanetOption(x, y, sequence) ==
    [ x |-> x, y |-> y, mass |-> 80, rotationSpeed |-> "quarter",
      noteSequence |-> sequence, synthType |-> "Synth", clockwise |-> TRUE ]

\* note-sequence strings: valid tokens, and invalid tokens only
PlanetOptions ==
    { PlanetOption(15000, 0, <<I4, V4>>), PlanetOption(0, -24000, <<VIII4>>) }

\* note-sequence string: an invalid token before a valid one
PropertyOptions ==
    { [ given |-> {"noteSequence", "synthType"}, mass |-> 0,
        noteSequence |-> <<VIII4, V4>>, rotationSpeed |-> "quarter",
        synthType |-> "FMSynth" ] }

\* an update to the empty note-sequence string
ClearNotes ==
    [ given |-> {"noteSequence"}, mass |-> 0, noteSequence |-> <<>>,
      rotationSpeed |-> "quarter", synthType |-> "Synth" ]

\* an id no entity ever has
UnknownId == 0

SatelliteOption(parent, radius, angle) ==
    [parentPlanetId |-> parent, orbitRadius |-> radius, startAngle |-> angle]

\* frame times: 16.7 and 33.3 ms
DeltaTimes == {50, 100}

(***************************************************************************)
(* Operations                                                              *)
(***************************************************************************)
Init ==
    /\ StartsAs(createSimulation)
    /\ audioLog = <<>>
    /\ lastOp = Op("createSimulation", 0, TRUE)
    /\ ticks = 0
    /\ applied = [fn |-> "none", inputs |-> <<>>, results |-> <<>>]
    /\ hist = NoHistory
    /\ revs = <<>>
    /\ passes = <<>>

AddStar(options) ==
    \E r \in {addStar(Sim, options)} :
        /\ Returns(r, Op("addStar", r.star.id, TRUE))
        /\ hist' = WorldChanged(hist)

AddPlanet(options) ==
    \E r \in {addPlanet(Sim, options)} :
        LET hit == Len(r.planets) > Len(planets)
        IN  /\ Returns(r, Op("addPlanet", IF hit THEN nextPlanetId ELSE 0, hit))
            /\ hist' = IF r.world # world THEN WorldChanged(hist) ELSE hist

UpdatePlanetProperties(planetId, options) ==
    \E r \in {updatePlanetProperties(Sim, planetId, options)} :
        /\ Returns(r, Op("updatePlanetProperties", planetId, planetId \in PlanetIds(Sim)))
        /\ hist' = hist

RemovePlanet(planetId) ==
    \E r \in {removePlanet(Sim, planetId)} :
        /\ Returns(r, Op("removePlanet", planetId, planetId \in PlanetIds(Sim)))
        /\ hist' = IF r.world # world THEN WorldChanged(hist) ELSE hist

AddSatellite(options) ==
    \E r \in {addSatellite(Sim, options)} :
        /\ Returns(r, Op("addSatellite", options.parentPlanetId,
                         Len(r.satellites) > Len(satellites)))
        /\ hist' = hist

RemoveSatellite(satelliteId) ==
    \E r \in {removeSatellite(Sim, satelliteId)} :
        /\ Returns(r, Op("removeSatellite", satelliteId, satelliteId \in SatelliteIds(Sim)))
        /\ hist' = hist

PlaySimulation ==
    \E r \in {playSimulation(Sim)}, now \in {Kinematics(bodies, world)} :
        /\ Returns(r, Op("playSimulation", 0, TRUE))
        /\ hist' = [ saved |-> TRUE,
                     first |-> IF hist.saved THEN hist.first ELSE now,
                     last |-> now,
                     firstIntact |-> IF hist.saved THEN hist.firstIntact ELSE TRUE,
                     lastIntact |-> TRUE,
                     moved |-> FALSE ]

PauseSimulation ==
    \E r \in {pauseSimulation(Sim)} :
        /\ Returns(r, Op("pauseSimulation", 0, TRUE))
        /\ hist' = hist

RewindSimulation ==
    \E r \in {rewindSimulation(Sim)} :
        /\ Returns(r, Op("rewindSimulation", 0, TRUE))
        /\ hist' = hist

SetSimulationTimeScale(scale) ==
    \E r \in {setSimulationTimeScale(Sim, scale)} :
        /\ Returns(r, Op("setSimulationTimeScale", scale, TRUE))
        /\ hist' = hist

SetSimulationGravity(gravity) ==
    \E r \in {setSimulationGravity(Sim, gravity)} :
        /\ Returns(r, Op("setSimulationGravity", gravity, TRUE))
        /\ hist' = hist

TickSimulation(deltaMs) ==
    \E res \in {tickSimulation(Sim, deltaMs)} :
        LET r == res.sim
            hit == isPlaying /\ star # Null
        IN  /\ Becomes(r)
            /\ audioLog' = res.events
            /\ lastOp' = [ op |-> "tickSimulation", id |-> deltaMs, hit |-> hit,
                           advanced |-> res.advanced, triggered |-> res.triggered,
                           removed |-> {}, calls |-> res.calls ]
            /\ ticks' = IF hit THEN ticks + SubSteps(deltaMs * timeScale) ELSE ticks
            /\ hist' = IF hit
                       THEN [hist EXCEPT !.moved = TRUE]
                       ELSE hist
            /\ revs' = [ id \in DOMAIN revs |->
                           IF hit
                           THEN Track(revs[id],
                                      Rel(r, r.bodies[PlanetOf(r, id).physicsBody].position),
                                      id \in res.advanced)
                           ELSE revs[id] ]
            /\ passes' = [ id \in DOMAIN passes |->
                             [passes[id] EXCEPT
                                 !.triggers = @ + (IF id \in res.triggered THEN 1 ELSE 0),
                                 !.quiet = IF id \in res.triggered \/ ~hit THEN 0
                                           ELSE @ + deltaMs] ]

\* settings a caller may pass: below the range, inside it and above it
ScaleValues == {-1, 2, 11}

\* the settings the engine does not clamp.  Where planets are added only
\* these are passed: the orbital speed of a planet added under a negative
\* gravity strength is the square root of a negative number
InRange(values) == {v \in values : setTimeScale([timeScale |-> v], v).timeScale = v}

\* the integrator divides the step by the body's last step, or by the step
\* itself when that was 0: a step of 0 after a step of 0 divides 0 by 0, which
\* the integers of the model do not hold
DefinedStep(deltaMs) ==
    \/ ~isPlaying \/ star = Null
    \/ deltaMs * timeScale * engineConfig.timeScale # 0
    \/ \A b \in SeqToSet(world) : bodies[b].isStatic \/ bodies[b].deltaTime # 0

(***************************************************************************)
(* Spec: every operation, on scenes of a few bodies                        *)
(***************************************************************************)
MaxStars == 1

MaxPlanetIds == 1

MaxSatelliteIds == 1

MaxTicks == 2

\* ids a caller may pass: the live ones and UnknownId
PlanetRefs == PlanetIds(Sim) \cup {UnknownId}

SatelliteRefs == SatelliteIds(Sim) \cup {UnknownId}

\* no live planet is on the orbit the options ask for
Free(options) ==
    \A i \in 1..Len(planets) :
        planets[i].orbitRadius #
            createPlanet(options, star, gravityStrength, 0, 0).planet.orbitRadius

Next ==
    \/ nextStarId <= MaxStars /\ \E options \in StarOptions : AddStar(options)
    \/ nextPlanetId <= MaxPlanetIds /\
       \E options \in PlanetOptions : Free(options) /\ AddPlanet(options)
    \/ \E id \in PlanetRefs, options \in PropertyOptions : UpdatePlanetProperties(id, options)
    \/ \E id \in PlanetRefs : RemovePlanet(id)
    \/ \E parent \in PlanetRefs :
          /\ parent \in PlanetIds(Sim) => nextSatelliteId <= MaxSatelliteIds
          /\ AddSatellite(SatelliteOption(parent, 30, 134000))
    \/ \E id \in SatelliteRefs : RemoveSatellite(id)
    \/ PlaySimulation
    \/ PauseSimulation
    \/ RewindSimulation
    \/ \E deltaMs \in DeltaTimes :
          ticks + SubSteps(deltaMs) <= MaxTicks /\ TickSimulation(deltaMs)

Spec == Init /\ [][Next]_vars

(***************************************************************************)
(* SpecOrbit: a scene is built (star, planets, satellites), played, and    *)
(* then only ticked, long enough for two revolutions of a planet           *)
(***************************************************************************)
MaxOrbitTicks == 250

RECURSIVE AddPlanets(_, _)
AddPlanets(sim, options) ==
    IF options = <<>> THEN sim
    ELSE AddPlanets(addPlanet(sim, Head(options)), Tail(options))

RECURSIVE AddSatellites(_, _)
AddSatellites(sim, options) ==
    IF options = <<>> THEN sim
    ELSE AddSatellites(addSatellite(sim, Head(options)), Tail(options))

\* the state after building a scene and pressing play
Scene(starOptions, planetOptions, satelliteOptions) ==
    playSimulation(
        AddSatellites(AddPlanets(addStar(createSimulation, starOptions), planetOptions),
                      satelliteOptions))

TheStar == CHOOSE options \in StarOptions : TRUE

\* a planet at angle 0 and no satellite; a planet at the top with a near and
\* a far satellite; a planet at angle PI with an empty note sequence and a
\* satellite; a planet about to pass angle 0 with a satellite about to pass
\* the top
OrbitScenes ==
    { Scene(TheStar, << PlanetOption(15000, 0, <<I4, V4>>) >>, <<>>),
      Scene(TheStar, << PlanetOption(0, -15000, <<I4, V4>>) >>,
            << SatelliteOption(1, 30, 0), SatelliteOption(1, 300, 134000) >>),
      Scene(TheStar, << PlanetOption(-15000, 0, <<>>) >>,
            << SatelliteOption(1, 30, 90000) >>),
      Scene(TheStar, << PlanetOption(15000, 300, <<I4, V4>>) >>,
            << SatelliteOption(1, 30, 134000) >>) }

\* frame times: 16.7 ms and the 50 ms frame clamp
OrbitDeltaTimes == {50, 150}

InitOrbit ==
    \E scene \in OrbitScenes :
        /\ StartsAs(scene)
        /\ audioLog = <<>>
        /\ lastOp = Op("playSimulation", 0, TRUE)
        /\ ticks = 0
        /\ applied = [fn |-> "none", inputs |-> <<>>, results |-> <<>>]
        /\ hist = [ saved |-> TRUE,
                    first |-> Kinematics(scene.bodies, scene.world),
                    last |-> Kinematics(scene.bodies, scene.world),
                    firstIntact |-> TRUE, lastIntact |-> TRUE, moved |-> FALSE ]
        /\ revs = [id \in PlanetIds(scene) |-> Placed(scene, PlanetOf(scene, id))]
        /\ passes = [ id \in SatelliteIds(scene) |->
                        [start |-> SatelliteOf(scene, id).orbitAngle, triggers |-> 0, quiet |-> 0] ]

\* the frame time is chosen at the first tick and kept
NextOrbit ==
    \E deltaMs \in OrbitDeltaTimes :
        /\ lastOp.op = "tickSimulation" => deltaMs = lastOp.id
        /\ ticks + SubSteps(deltaMs) <= MaxOrbitTicks
        /\ TickSimulation(deltaMs)

SpecOrbit == InitOrbit /\ [][NextOrbit]_vars

(***************************************************************************)
(* SpecEdit: a playing simulation with a star, edited while it runs:       *)
(* planets and satellites come and go between ticks                        *)
(***************************************************************************)
MaxEditPlanetIds == 2

MaxEditSatelliteIds == 2

MaxEditTicks == 1

InitEdit ==
    /\ StartsAs(playSimulation(addStar(createSimulation, TheStar)))
    /\ audioLog = <<>>
    /\ lastOp = Op("playSimulation", 0, TRUE)
    /\ ticks = 0
    /\ applied = [fn |-> "none", inputs |-> <<>>, results |-> <<>>]
    /\ hist = [ saved |-> TRUE, first |-> <<>>, last |-> <<>>,
                firstIntact |-> TRUE, lastIntact |-> TRUE, moved |-> FALSE ]
    /\ revs = <<>>
    /\ passes = <<>>

NextEdit ==
    \/ nextPlanetId <= MaxEditPlanetIds /\
       \E options \in PlanetOptions : Free(options) /\ AddPlanet(options)
    \/ \E id \in PlanetRefs, options \in PropertyOptions \cup {ClearNotes} :
          UpdatePlanetProperties(id, options)
    \/ \E id \in PlanetRefs : RemovePlanet(id)
    \/ \E parent \in PlanetRefs :
          /\ parent \in PlanetIds(Sim) => nextSatelliteId <= MaxEditSatelliteIds
          /\ AddSatellite(SatelliteOption(parent, 30, 134000))
    \/ \E id \in SatelliteRefs : RemoveSatellite(id)
    \/ ticks + 1 <= MaxEditTicks /\ TickSimulation(FIXED_STEP_MS)

SpecEdit == InitEdit /\ [][NextEdit]_vars

(***************************************************************************)
(* SpecLimits: a scene is filled up to the limits of 20 planets and 100    *)
(* satellites; at a limit the newest entity may be removed and another     *)
(* added                                                                   *)
(***************************************************************************)
MaxLimitPlanetIds == 21

MaxLimitSatelliteIds == 101

\* the next planet goes 10 px further out than the last
NextPlanetOption == PlanetOption(10000 + 1000 * nextPlanetId, 0, <<I4>>)

NextLimits ==
    \/ /\ Len(planets) < MAX_PLANETS => nextPlanetId <= MaxLimitPlanetIds
       /\ AddPlanet(NextPlanetOption)
    \/ /\ Len(planets) = MAX_PLANETS
       /\ RemovePlanet(planets[Len(planets)].id)
    \/ /\ planets # <<>>
       /\ Len(satellites) < MAX_SATELLITES => nextSatelliteId <= MaxLimitSatelliteIds
       /\ AddSatellite(SatelliteOption(planets[1].id, 30, 0))
    \/ /\ Len(satellites) = MAX_SATELLITES
       /\ RemoveSatellite(satellites[Len(satellites)].id)

SpecLimits == Init /\ [][NextLimits]_vars

(***************************************************************************)
(* SpecControls: a scene of a planet and a satellite, with or without a    *)
(* star, under the transport controls (play, pause, rewind), the time      *)
(* scale and gravity settings, the placing of a star, and ticks            *)
(***************************************************************************)
MaxControlTicks == 2

MaxControlStars == 2

\* the star a caller places, first or in place of the one there is
ReplacementStar == [TheStar EXCEPT !.key = "G", !.mode = "Dorian"]

ControlScenes ==
    { AddSatellites(AddPlanets(sim, << PlanetOption(15000, 0, <<I4, V4>>) >>),
                    << SatelliteOption(1, 30, 134000) >>) :
        sim \in {createSimulation, addStar(createSimulation, TheStar)} }

InitControls ==
    \E scene \in ControlScenes :
        /\ StartsAs(scene)
        /\ audioLog = <<>>
        /\ lastOp = Op("addSatellite", 1, TRUE)
        /\ ticks = 0
        /\ applied = [fn |-> "none", inputs |-> <<>>, results |-> <<>>]
        /\ hist = NoHistory
        /\ revs = [id \in PlanetIds(scene) |-> Placed(scene, PlanetOf(scene, id))]
        /\ passes = [ id \in SatelliteIds(scene) |->
                        [start |-> SatelliteOf(scene, id).orbitAngle, triggers |-> 0, quiet |-> 0] ]

NextControls ==
    \/ nextStarId <= MaxControlStars /\ AddStar(ReplacementStar)
    \/ PlaySimulation
    \/ PauseSimulation
    \/ RewindSimulation
    \/ \E scale \in ScaleValues : SetSimulationTimeScale(scale)
    \/ \E gravity \in ScaleValues : SetSimulationGravity(gravity)
    \/ /\ ticks + SubSteps(FIXED_STEP_MS * timeScale) <= MaxControlTicks
       /\ DefinedStep(FIXED_STEP_MS)
       /\ TickSimulation(FIXED_STEP_MS)

SpecControls == InitControls /\ [][NextControls]_vars

(***************************************************************************)
(* SpecWorld: stars, planets and satellites come and go in a simulation    *)
(* that never plays                                                        *)
(***************************************************************************)
MaxWorldStars == 2

MaxWorldPlanetIds == 2

MaxWorldSatelliteIds == 2

NextWorld ==
    \/ nextStarId <= MaxWorldStars /\
       \E options \in {TheStar, ReplacementStar} : AddStar(options)
    \/ nextPlanetId <= MaxWorldPlanetIds /\
       \E options \in PlanetOptions : Free(options) /\ AddPlanet(options)
    \/ \E id \in PlanetRefs : RemovePlanet(id)
    \/ \E parent \in PlanetRefs :
          /\ parent \in PlanetIds(Sim) => nextSatelliteId <= MaxWorldSatelliteIds
          /\ AddSatellite(SatelliteOption(parent, 30, 134000))
    \/ \E id \in SatelliteRefs : RemoveSatellite(id)

SpecWorld == Init /\ [][NextWorld]_vars

(***************************************************************************)
(* SpecMutators: every mutator of the orchestrator, from the empty         *)
(* simulation, on scenes of at most one planet and one satellite           *)
(***************************************************************************)
MaxMutatorTicks == 1

NextMutators ==
    \/ nextStarId <= MaxStars /\ AddStar(TheStar)
    \/ nextPlanetId <= MaxPlanetIds /\ AddPlanet(PlanetOption(15000, 0, <<I4, V4>>))
    \/ \E id \in PlanetRefs, options \in PropertyOptions : UpdatePlanetProperties(id, options)
    \/ \E id \in PlanetRefs : RemovePlanet(id)
    \/ \E parent \in PlanetRefs :
          /\ parent \in PlanetIds(Sim) => nextSatelliteId <= MaxSatelliteIds
          /\ AddSatellite(SatelliteOption(parent, 30, 134000))
    \/ \E id \in SatelliteRefs : RemoveSatellite(id)
    \/ PlaySimulation
    \/ PauseSimulation
    \/ RewindSimulation
    \/ \E scale \in InRange(ScaleValues) : SetSimulationTimeScale(scale)
    \/ \E gravity \in InRange(ScaleValues) : SetSimulationGravity(gravity)
    \/ /\ ticks + SubSteps(FIXED_STEP_MS * timeScale) <= MaxMutatorTicks
       /\ DefinedStep(FIXED_STEP_MS)
       /\ TickSimulation(FIXED_STEP_MS)

SpecMutators == Init /\ [][NextMutators]_vars

(***************************************************************************)
(* SpecRewind: two planets about a star are captured by play; planets are  *)
(* then removed and added between ticks, rewinds and further plays         *)
(***************************************************************************)
MaxRewindPlanetIds == 3

MaxRewindTicks == 2

InitRewind ==
    \E scene \in { Scene(TheStar, << PlanetOption(15000, 0, <<I4, V4>>),
                                     PlanetOption(0, -24000, <<VIII4>>) >>, <<>>) } :
        /\ StartsAs(scene)
        /\ audioLog = <<>>
        /\ lastOp = Op("playSimulation", 0, TRUE)
        /\ ticks = 0
        /\ applied = [fn |-> "none", inputs |-> <<>>, results |-> <<>>]
        /\ hist = [ saved |-> TRUE,
                    first |-> Kinematics(scene.bodies, scene.world),
                    last |-> Kinematics(scene.bodies, scene.world),
                    firstIntact |-> TRUE, lastIntact |-> TRUE, moved |-> FALSE ]
        /\ revs = [id \in PlanetIds(scene) |-> Placed(scene, PlanetOf(scene, id))]
        /\ passes = <<>>

NextRewind ==
    \/ nextPlanetId <= MaxRewindPlanetIds /\ AddPlanet(PlanetOption(-15000, 0, <<I4, V4>>))
    \/ \E id \in PlanetIds(Sim) : RemovePlanet(id)
    \/ PlaySimulation
    \/ RewindSimulation
    \/ /\ ticks + SubSteps(FIXED_STEP_MS * timeScale) <= MaxRewindTicks
       /\ TickSimulation(FIXED_STEP_MS)

SpecRewind == InitRewind /\ [][NextRewind]_vars

(***************************************************************************)
(* SpecSteps: a playing simulation, with or without a planet, is ticked at *)
(* several frame times under time scales from below the range to above it  *)
(***************************************************************************)
MaxStepTicks == 40

\* frame times: 16.7 ms, 33.3 ms, 40 ms and the 50 ms frame clamp
StepDeltaTimes == {50, 100, 120, 150}

StepScales == {-1, 0, 1, 10, 11}

\* Ticks are taken where the model can follow them: the sub-step is a whole
\* number of time units, and a planet is ticked only at time scales up to 1,
\* which keep it within the positions the model holds, and for MaxTicks
\* sub-steps
NextSteps ==
    \/ nextPlanetId <= MaxPlanetIds /\ AddPlanet(PlanetOption(15000, 0, <<I4, V4>>))
    \/ \E scale \in StepScales : SetSimulationTimeScale(scale)
    \/ \E deltaMs \in StepDeltaTimes :
          /\ ticks + SubSteps(deltaMs * timeScale) <= MaxStepTicks
          /\ DefinedStep(deltaMs)
          /\ (deltaMs * timeScale) % SubSteps(deltaMs * timeScale) = 0
          /\ planets # <<>> =>
                timeScale <= 1 /\ ticks + SubSteps(deltaMs * timeScale) <= MaxTicks
          /\ TickSimulation(deltaMs)

SpecSteps == InitEdit /\ [][NextSteps]_vars

(***************************************************************************)
(* SpecVolume: distanceToVolume applied to two distances, from below 0 to  *)
(* beyond the audible distance                                             *)
(***************************************************************************)
DistanceMargin == 3

DistanceStep == 10

\* whole pixels for the first distance, every DistanceStep-th for the second
Distances(step) ==
    {d \in (-DistanceMargin)..(MAX_AUDIBLE_DISTANCE + DistanceMargin) : d % step = 0}

InitVolume ==
    /\ StartsAs(createSimulation)
    /\ audioLog = <<>>
    /\ lastOp = Op("createSimulation", 0, TRUE)
    /\ ticks = 0
    /\ hist = NoHistory
    /\ revs = <<>>
    /\ passes = <<>>
    /\ \E d1 \in Distances(1), d2 \in Distances(DistanceStep) :
          applied = [fn |-> "distanceToVolume", inputs |-> <<d1, d2>>, results |-> <<>>]

DistanceToVolume ==
    /\ applied.results = <<>>
    /\ applied' = [applied EXCEPT !.results = << distanceToVolume(applied.inputs[1]),
                                                 distanceToVolume(applied.inputs[2]) >>]
    /\ UNCHANGED << progVars, audioLog, lastOp, ticks, hist, revs, passes >>

SpecVolume == InitVolume /\ [][DistanceToVolume]_vars

(***************************************************************************)
(* SpecTop: didCrossTop applied to two angles from the top, all round the  *)
(* circle and on both sides of the edges of the window                     *)
(***************************************************************************)
TopStep == 3000

TopAngles ==
    {a \in 0..(TWO_PI - 1) :
        \/ a % TopStep = 0
        \/ \E edge \in {WINDOW, TWO_PI - WINDOW, TWO_PI} : a - edge \in -1..1}

InitTop ==
    /\ StartsAs(createSimulation)
    /\ audioLog = <<>>
    /\ lastOp = Op("createSimulation", 0, TRUE)
    /\ ticks = 0
    /\ hist = NoHistory
    /\ revs = <<>>
    /\ passes = <<>>
    /\ \E prevTop \in TopAngles, currTop \in TopAngles :
          applied = [fn |-> "didCrossTop", inputs |-> <<prevTop, currTop>>,
                     results |-> <<>>]

DidCrossTop ==
    /\ applied.results = <<>>
    /\ applied' = [applied EXCEPT
                      !.results = << didCrossTop(applied.inputs[1], applied.inputs[2]) >>]
    /\ UNCHANGED << progVars, audioLog, lastOp, ticks, hist, revs, passes >>

SpecTop == InitTop /\ [][DidCrossTop]_vars

(***************************************************************************)
(* Properties                                                              *)
(***************************************************************************)

\* C1: a rewind that follows a capture of the world, with any playing ticks
\* and no body added or removed in between, leaves every non-static body with
\* the captured position, velocity, angle and angular velocity, and the
\* returned state is not playing.
RewindFidelity ==
    lastOp.op = "rewindSimulation" /\ hist.saved /\ hist.lastIntact =>
        /\ Kinematics(bodies, world) = hist.last
        /\ isPlaying = FALSE

\* a rewind after ticks have moved a captured planet
RewindFidelityWitness ==
    /\ lastOp.op = "rewindSimulation"
    /\ hist.saved /\ hist.lastIntact /\ hist.moved
    /\ DOMAIN hist.last # {}
    /\ Kinematics(bodies, world) = hist.last

\* C2: play never replaces the saved snapshot: whatever plays, ticks and
\* pauses came since the world was first captured (no body added or removed),
\* a rewind restores the kinematics of that first capture.
RewindToFirstCapture ==
    lastOp.op = "rewindSimulation" /\ hist.saved /\ hist.firstIntact =>
        Kinematics(bodies, world) = hist.first

\* C3: the note cursor of a planet advances exactly once per completed
\* revolution: at every moment the advances updatePlanet has reported for a
\* planet with a note sequence are as many as the crossings of the reference
\* angle its body has made, so none is reported before a revolution
\* completes and none twice for the same crossing.
OneAdvancePerRevolution ==
    \A i \in 1..Len(planets) :
        Len(planets[i].noteSequence) > 0 =>
            revs[planets[i].id].advances = revs[planets[i].id].crossings

\* the scene of the end-to-end scenario: one planet placed at (150, 0) with
\* mass 80 and the sequence I4 V4, about a star at the origin, BPM 120, in C
\* Ionian, and nothing else
EndToEndScene ==
    /\ star # Null /\ star.position = ZeroVec /\ star.bpm = 120
    /\ star.key = "C" /\ star.mode = "Ionian"
    /\ Len(planets) = 1 /\ satellites = <<>>
    /\ planets[1].mass = 80 /\ planets[1].noteSequence = <<I4, V4>>
    /\ hist.first[planets[1].physicsBody].position = Vec(15000, 0)

\* C4: in the end-to-end scene, when the planet completes its first
\* revolution the cursor is 1 and the note sent is G4; when it completes its
\* second the cursor is 0 and the note sent is C4.
EndToEndNotes ==
    EndToEndScene /\ revs[planets[1].id].crossedNow =>
        /\ revs[planets[1].id].crossings = 1 =>
              /\ planets[1].currentNoteIndex = 1
              /\ Len(audioLog) = 1 /\ audioLog[1].note = Note("G", 4)
        /\ revs[planets[1].id].crossings = 2 =>
              /\ planets[1].currentNoteIndex = 0
              /\ Len(audioLog) = 1 /\ audioLog[1].note = Note("C", 4)

\* the times the orbit angle of a satellite has passed the top of the orbit
\* (angle 3/4 turn, where sin = -1) since it was created
TopPasses(satellite) ==
    ((satellite.orbitAngle + TWO_PI \div 4) \div TWO_PI)
        - ((passes[satellite.id].start + TWO_PI \div 4) \div TWO_PI)

\* C5: a satellite has triggered exactly once for each pass of its orbit
\* angle over the top: no pass is missed and none triggers twice, also while
\* the parent planet moves.
OneTriggerPerPass ==
    \A i \in 1..Len(satellites) :
        passes[satellites[i].id].triggers = TopPasses(satellites[i])

\* the events of the last tick that came from satellites: the log after the
\* events of the planets whose cursor advanced
SatelliteEvents ==
    SubSeq(audioLog, Cardinality(lastOp.advanced) + 1, Len(audioLog))

\* what identifies a note event: whose instrument, which note, how loud
EventKey(e) ==
    [planetId |-> e.planetId, instrument |-> e.instrument,
     note |-> e.note, volume |-> e.volume]

\* the event a triggering satellite is to send: its parent's instrument, the
\* note under its parent's cursor, the volume of its orbit radius
TriggerEvent(satellite) ==
    LET parentPlanet == PlanetOf(Sim, satellite.parentPlanetId)
    IN  [ planetId |-> parentPlanet.id,
          instrument |-> synths[parentPlanet.id],
          note |-> scaleDegreeToNote(
                       parentPlanet.noteSequence[parentPlanet.currentNoteIndex + 1],
                       star.key, star.mode),
          volume |-> distanceToVolume(satellite.orbitRadius) ]

\* C6 (as stated): on every tick, each satellite that triggered sent exactly
\* one note event, and its pulse is 1.
EveryTriggerSounds ==
    lastOp.op = "tickSimulation" =>
        /\ Len(SatelliteEvents) = Cardinality(lastOp.triggered)
        /\ \A id \in lastOp.triggered : triggerPulses[id] = PULSE_FULL

\* C6 (amended): on every tick, each satellite that triggered and whose
\* parent planet has a note under its cursor sent exactly one note event, to
\* its parent's instrument, with the parent's current note and the volume
\* distanceToVolume(orbitRadius), which is louder at radius 30 than at 300; a
\* satellite whose parent has an empty note sequence sent none; the pulse of
\* every satellite that triggered is 1.
TriggerSoundsParentNote ==
    lastOp.op = "tickSimulation" =>
        /\ [i \in 1..Len(SatelliteEvents) |-> EventKey(SatelliteEvents[i])] =
           Flatten([i \in 1..Len(satellites) |->
                       IF /\ satellites[i].id \in lastOp.triggered
                          /\ Len(PlanetOf(Sim, satellites[i].parentPlanetId).noteSequence) > 0
                       THEN << TriggerEvent(satellites[i]) >>
                       ELSE <<>>])
        /\ \A id \in lastOp.triggered : triggerPulses[id] = PULSE_FULL
        /\ distanceToVolume(30) > distanceToVolume(300)

\* a tick on which the satellite at radius 30 triggered, after its parent's
\* cursor had advanced to the second note, and its event was sent
TriggerSoundsWitness ==
    /\ lastOp.op = "tickSimulation"
    /\ \E i \in 1..Len(satellites) :
          /\ satellites[i].id \in lastOp.triggered
          /\ satellites[i].orbitRadius = 30
          /\ PlanetOf(Sim, satellites[i].parentPlanetId).currentNoteIndex = 1
          /\ Len(SatelliteEvents) = 1
          /\ EventKey(SatelliteEvents[1]) = TriggerEvent(satellites[i])
          /\ triggerPulses[satellites[i].id] = PULSE_FULL

\* C7: every satellite whose parent planet exists is at its parent's current
\* position plus orbitRadius * (cos orbitAngle, sin orbitAngle), however far
\* the ticks have moved the parent.
SatelliteContainment ==
    \A i \in 1..Len(satellites) :
        satellites[i].parentPlanetId \in PlanetIds(Sim) =>
            LET parentPlanet == PlanetOf(Sim, satellites[i].parentPlanetId)
            IN  satellites[i].position =
                    Vec(parentPlanet.position.x
                            + Cos(satellites[i].orbitAngle) * satellites[i].orbitRadius,
                        parentPlanet.position.y
                            + Sin(satellites[i].orbitAngle) * satellites[i].orbitRadius)

\* after a hundred physics steps a satellite is on its circle about a parent
\* that is no longer where it was captured
SatelliteContainmentWitness ==
    /\ ticks >= 100
    /\ \E i \in 1..Len(satellites) :
          /\ satellites[i].parentPlanetId \in PlanetIds(Sim)
          /\ LET parentPlanet == PlanetOf(Sim, satellites[i].parentPlanetId)
             IN  /\ parentPlanet.position # hist.first[parentPlanet.physicsBody].position
                 /\ satellites[i].position =
                        Vec(parentPlanet.position.x
                                + Cos(satellites[i].orbitAngle) * satellites[i].orbitRadius,
                            parentPlanet.position.y
                                + Sin(satellites[i].orbitAngle) * satellites[i].orbitRadius)

\* C9: after every operation each satellite's parentPlanetId is the id of a
\* planet in the planet list, and a removePlanet that finds its planet
\* removes the satellites that planet owned, every one of them, and leaves
\* every other satellite as it was.
SatellitesHaveParents ==
    [][ /\ \A i \in 1..Len(satellites') :
              satellites'[i].parentPlanetId \in {planets'[j].id : j \in 1..Len(planets')}
        /\ lastOp'.op = "removePlanet" /\ lastOp'.id \in PlanetIds(Sim) =>
              /\ lastOp'.id \notin {planets'[j].id : j \in 1..Len(planets')}
              /\ satellites' = SelectSeq(satellites,
                                         LAMBDA t : t.parentPlanetId # lastOp'.id)
              /\ \A i \in 1..Len(satellites) :
                    satellites[i].parentPlanetId = lastOp'.id <=>
                        satellites[i].id \notin
                            {satellites'[j].id : j \in 1..Len(satellites')}
      ]_vars

\* a removePlanet that took a satellite with it and left another planet's
\* satellite in place
SatellitesHaveParentsWitness ==
    /\ lastOp.op = "removePlanet" /\ lastOp.hit
    /\ lastOp.removed # {}
    /\ satellites # <<>>
    /\ \A i \in 1..Len(satellites) : satellites[i].parentPlanetId \in PlanetIds(Sim)

\* C10: removePlanet, updatePlanetProperties and removeSatellite with an id
\* that matches no live entity, and addSatellite with a parentPlanetId that
\* matches no live planet, return the state they were given: the aggregate,
\* the pulses, the physics world and the voice table are unchanged.
UnknownReferenceIsNoOp ==
    [][ \/ /\ lastOp'.op \in {"removePlanet", "updatePlanetProperties", "addSatellite"}
           /\ lastOp'.id \notin PlanetIds(Sim)
        \/ /\ lastOp'.op = "removeSatellite"
           /\ lastOp'.id \notin SatelliteIds(Sim)
        => UNCHANGED progVars
      ]_vars

\* an addSatellite for an unknown planet, in a scene that has a planet with a
\* satellite
UnknownReferenceWitness ==
    /\ lastOp.op = "addSatellite"
    /\ lastOp.id \notin PlanetIds(Sim)
    /\ planets # <<>>
    /\ satellites # <<>>

\* C8: there are never more than 20 planets or more than 100 satellites, and
\* addPlanet with 20 planets present, and addSatellite with 100 satellites
\* present, return the state they were given.
LimitsEnforced ==
    [][ /\ Len(planets') <= 20
        /\ Len(satellites') <= 100
        /\ lastOp'.op = "addPlanet" /\ Len(planets) = 20 => UNCHANGED progVars
        /\ lastOp'.op = "addSatellite" /\ Len(satellites) = 100 => UNCHANGED progVars
      ]_vars

\* an addSatellite for a live planet refused in a scene of 20 planets and 100
\* satellites
LimitsEnforcedWitness ==
    /\ lastOp.op = "addSatellite" /\ ~lastOp.hit
    /\ lastOp.id \in PlanetIds(Sim)
    /\ Len(planets) = 20
    /\ Len(satellites) = 100

\* C11: a tick while the simulation is not playing, or while there is no
\* star, returns its input unchanged: no force is applied, no body moves, no
\* planet or satellite field changes, no note is sent and no pulse decays.
TickWhileStoppedIsNoOp ==
    [][ lastOp'.op = "tickSimulation" /\ (~isPlaying \/ star = Null) =>
            /\ UNCHANGED progVars
            /\ audioLog' = <<>> ]_vars

\* a tick arrived while paused, with a star and a pulse that is still glowing
TickWhileStoppedWitness ==
    /\ lastOp.op = "tickSimulation"
    /\ ~lastOp.hit
    /\ ~isPlaying
    /\ star # Null
    /\ \E id \in DOMAIN triggerPulses : triggerPulses[id] # PULSE_NONE

\* C12: isPlaying is true right after playSimulation, false right after
\* pauseSimulation and right after rewindSimulation, whatever it was before,
\* and no other operation (add, remove, update, tick, set time scale, set
\* gravity) changes it.
PlayStatusMachine ==
    [][ isPlaying' =
            CASE lastOp'.op = "playSimulation" -> TRUE
              [] lastOp'.op \in {"pauseSimulation", "rewindSimulation"} -> FALSE
              [] OTHER -> isPlaying ]_vars

\* a rewind after the simulation has played and ticked
PlayStatusWitness ==
    /\ lastOp.op = "rewindSimulation"
    /\ hist.saved /\ hist.moved
    /\ ~isPlaying

\* C13: after setSimulationTimeScale and setSimulationGravity with any number
\* (negative or above 10 included), the aggregate's timeScale and
\* gravityStrength, which tickSimulation and addPlanet read, lie in [0, 10]
\* and equal the clamped values of the engine configuration.
SettingsClamped ==
    /\ timeScale \in 0..10
    /\ gravityStrength \in 0..10
    /\ timeScale = engineConfig.timeScale
    /\ gravityStrength = engineConfig.gravity

\* C14: after any sequence of addStar calls the aggregate holds one star, the
\* one added last, and the world holds exactly one static body, the body of
\* that star: the body of the previous star was removed.
OneStarOneStaticBody ==
    star # Null =>
        /\ star.id = nextStarId - 1
        /\ lastOp.op = "addStar" => star.id = lastOp.id /\ star.key = ReplacementStar.key
        /\ SelectSeq(world, LAMBDA b : bodies[b].isStatic) = << star.physicsBody >>

\* a star has been replaced while planets orbit
OneStarWitness ==
    /\ lastOp.op = "addStar"
    /\ nextStarId > 2
    /\ planets # <<>>

\* C15: after any sequence of addPlanet, updatePlanetProperties and
\* removePlanet, the voice table holds exactly one voice per live planet,
\* under the planet's id, none for a removed planet, and the type of each
\* voice is the current synthType of its planet.
OneVoicePerPlanet ==
    /\ DOMAIN synths = PlanetIds(Sim)
    /\ Cardinality(DOMAIN synths) = Len(planets)
    /\ \A i \in 1..Len(planets) : synths[planets[i].id] = planets[i].synthType

\* an update has just changed the instrument of a planet, after another
\* planet was removed
OneVoiceWitness ==
    /\ lastOp.op = "updatePlanetProperties" /\ lastOp.hit
    /\ PlanetOf(Sim, lastOp.id).synthType = "FMSynth"
    /\ nextPlanetId - 1 > Len(planets)

PulseZeroAt250Ms ==
    \A id \in DOMAIN triggerPulses :
        /\ triggerPulses[id].hi \in 0..2^28 /\ triggerPulses[id].lo \in 0..(2^28 - 1)
        /\ triggerPulses[id].hi = 2^28 => triggerPulses[id] = PULSE_FULL
        /\ lastOp.op = "tickSimulation" /\ id \in lastOp.triggered
              => triggerPulses[id] = PULSE_FULL
        /\ passes[id].triggers > 0 /\ passes[id].quiet >= 3 * 250
              => triggerPulses[id] = PULSE_NONE

\* C18, with the rounding of the subtraction: pulses are in [0, 1]; a tick
\* that triggers a satellite sets its pulse to 1; a tick that does not lowers
\* a positive pulse and leaves a pulse of 0 at 0; before 250 ms of
\* non-triggering tick time the pulse is positive, after more than 250 ms it
\* is exactly 0, and at 250 ms it is below 2^-50
PulseDecays ==
    [][\A id \in DOMAIN triggerPulses' :
          /\ triggerPulses'[id].hi \in 0..2^28 /\ triggerPulses'[id].lo \in 0..(2^28 - 1)
          /\ triggerPulses'[id].hi = 2^28 => triggerPulses'[id] = PULSE_FULL
          /\ id \in lastOp'.triggered => triggerPulses'[id] = PULSE_FULL
          /\ id \notin lastOp'.triggered /\ id \in DOMAIN triggerPulses
                => IF triggerPulses[id] = PULSE_NONE
                   THEN triggerPulses'[id] = PULSE_NONE
                   ELSE \/ triggerPulses'[id].hi < triggerPulses[id].hi
                        \/ /\ triggerPulses'[id].hi = triggerPulses[id].hi
                           /\ triggerPulses'[id].lo < triggerPulses[id].lo
          /\ passes'[id].triggers > 0 /\ passes'[id].quiet < 3 * 250
                => triggerPulses'[id] # PULSE_NONE
          /\ passes'[id].triggers > 0 /\ passes'[id].quiet = 3 * 250
                => triggerPulses'[id].hi = 0 /\ triggerPulses'[id].lo < 2^6
          /\ passes'[id].triggers > 0 /\ passes'[id].quiet > 3 * 250
                => triggerPulses'[id] = PULSE_NONE]_vars

\* a pulse set to 1 by a trigger has decayed to exactly 0
PulseDecaysWitness ==
    \E id \in DOMAIN triggerPulses :
        /\ passes[id].triggers > 0
        /\ passes[id].quiet > 3 * 250
        /\ triggerPulses[id] = PULSE_NONE

\* C19: a rewind after a captured body has left the world does not fail and
\* does not bring the body back: the world holds the same bodies after it as
\* before, every non-static body of the world that the snapshot holds has its
\* captured position, velocity, angle and angular velocity, and every
\* non-static body added after the capture is as it was before the rewind.
RestoreSkipsMissingBodies ==
    [][lastOp'.op = "rewindSimulation" =>
          /\ world' = world
          /\ \A b \in DOMAIN Kinematics(bodies, world) :
                IF b \in DOMAIN hist.last
                THEN Kinematics(bodies', world')[b] = hist.last[b]
                ELSE bodies'[b] = bodies[b]]_vars

\* a rewind with a captured planet removed, a captured planet moved by ticks
\* and put back, and a planet added after the capture and moved by ticks
RestoreSkipsMissingWitness ==
    /\ lastOp.op = "rewindSimulation"
    /\ hist.saved /\ hist.moved
    /\ \E b \in DOMAIN hist.last : b \notin SeqToSet(world)
    /\ \E b \in DOMAIN hist.last :
          /\ b \in SeqToSet(world)
          /\ Kinematics(bodies, world)[b] = hist.last[b]
    /\ \E b \in DOMAIN Kinematics(bodies, world) :
          /\ b \notin DOMAIN hist.last
          /\ bodies[b].position # Vec(-15000, 0)

PhasesInOrder ==
    lastOp.op = "tickSimulation" /\ lastOp.hit =>
        /\ \A i \in 1..Len(planets) :
              /\ planets[i].position = bodies[planets[i].physicsBody].position
              /\ planets[i].velocity = bodies[planets[i].physicsBody].velocity
        /\ \A i \in 1..Len(satellites) :
              /\ satellites[i].id \in lastOp.triggered
              /\ satellites[i].parentPlanetId \in lastOp.advanced
              => \E a, b \in 1..Len(audioLog) :
                    /\ a < b
                    /\ a <= Cardinality(lastOp.advanced)
                    /\ b > Cardinality(lastOp.advanced)
                    /\ audioLog[a].planetId = satellites[i].parentPlanetId
                    /\ audioLog[a].volume = PLANET_NOTE_VOLUME
                    /\ EventKey(audioLog[b]) = TriggerEvent(satellites[i])
                    /\ audioLog[b].note = audioLog[a].note

\* a tick on which a planet's cursor advanced and a satellite of that planet
\* triggered, after sub-steps that moved the planet
PhasesInOrderWitness ==
    /\ lastOp.op = "tickSimulation" /\ lastOp.hit
    /\ \E i \in 1..Len(satellites) :
          /\ satellites[i].id \in lastOp.triggered
          /\ satellites[i].parentPlanetId \in lastOp.advanced
          /\ Len(audioLog) >= 2
          /\ PlanetOf(Sim, satellites[i].parentPlanetId).currentNoteIndex = 1

\* C22: after every playing tick with a star the sub-steps made are
\* steps = max(1, round(deltaMs * timeScale / FIXED_STEP_MS)) of them, at
\* least 1, and at most 30 when deltaMs is at most 50 ms and timeScale at most
\* 10; each is a call of applyGravity followed by a call of Engine.update
\* with stepMs, and steps * stepMs = deltaMs * timeScale.
SubStepsBounded ==
    lastOp.op = "tickSimulation" /\ lastOp.hit =>
        \E steps \in 1..Len(lastOp.calls), stepMs \in {lastOp.calls[2].arg} :
            /\ Len(lastOp.calls) = 2 * steps
            /\ \/ steps = 1 /\ 2 * lastOp.id * timeScale < 3 * FIXED_STEP_MS
               \/ /\ (2 * steps - 1) * FIXED_STEP_MS <= 2 * lastOp.id * timeScale
                  /\ 2 * lastOp.id * timeScale < (2 * steps + 1) * FIXED_STEP_MS
            /\ lastOp.id <= 3 * FIXED_STEP_MS /\ timeScale <= 10 => steps <= 30
            /\ \A k \in 1..steps :
                  /\ lastOp.calls[2 * k - 1].fn = "applyGravity"
                  /\ lastOp.calls[2 * k - 1].arg = gravityStrength
                  /\ lastOp.calls[2 * k].fn = "Engine.update"
                  /\ lastOp.calls[2 * k].arg = stepMs
            /\ steps * stepMs = lastOp.id * timeScale

\* a 50 ms tick at time scale 10: thirty sub-steps
SubStepsBoundedWitness ==
    /\ lastOp.op = "tickSimulation" /\ lastOp.hit
    /\ lastOp.id = 3 * FIXED_STEP_MS /\ timeScale = 10
    /\ Len(lastOp.calls) = 60

RECURSIVE PullOn(_, _, _)
\* the sum of the pulls on body of the star and the planets in sources
PullOn(body, sources, strength) ==
    IF sources = {} THEN ZeroVec
    ELSE LET source == CHOOSE c \in sources : TRUE
             rest == PullOn(body, sources \ {source}, strength)
             pull == gravitationalForce(body.position, bodies[source.physicsBody].position,
                                        body.mass, source.mass, strength)
         IN  Vec(pull.x + rest.x, pull.y + rest.y)

\* C23: the first call of applyGravity of a playing tick leaves on every
\* non-static body of the world the sum of the pulls of the star and of the
\* planets other than the body, and no force on the static star or on a body
\* no longer in the world; no pull comes from a satellite; and a call in
\* which a body is the only source leaves no force on it.
OneForcePerBody ==
    [][lastOp'.op = "tickSimulation" /\ lastOp'.hit =>
          \A b \in DOMAIN bodies :
              IF b \in SeqToSet(world) /\ ~bodies[b].isStatic
              THEN /\ lastOp'.calls[1].forces[b] =
                          PullOn(bodies[b],
                                 {star} \cup {planets[i] : i \in {j \in 1..Len(planets) :
                                                  planets[j].physicsBody # b}},
                                 gravityStrength)
                   /\ applyGravity(bodies, world,
                                   << [body |-> b, mass |-> bodies[b].mass] >>,
                                   gravityStrength)[b].force = ZeroVec
              ELSE lastOp'.calls[1].forces[b] = ZeroVec]_vars

\* a tick with two planets, a satellite and the star: each planet was
\* pulled, one of them off the line to the star by the other planet, and the
\* star was not
OneForcePerBodyWitness ==
    /\ lastOp.op = "tickSimulation" /\ lastOp.hit
    /\ Len(planets) = 2 /\ Len(satellites) > 0
    /\ \A i \in 1..2 :
          lastOp.calls[1].forces[planets[i].physicsBody] # ZeroVec
    /\ \E i \in 1..2 :
          /\ lastOp.calls[1].forces[planets[i].physicsBody].x # 0
          /\ lastOp.calls[1].forces[planets[i].physicsBody].y # 0
    /\ lastOp.calls[1].forces[star.physicsBody] = ZeroVec

\* C24 as stated: for angles from the top prevTop and currTop in [0, 2 PI),
\* the wrap-crossing condition (prevTop within the window below 2 PI and
\* currTop inside the window above 0) and the direct-crossing condition
\* (prevTop outside the window and currTop at or inside it) are never both
\* true, and didCrossTop answers once for the pair.
CrossingCasesExclusive ==
    applied.fn = "didCrossTop" /\ applied.results # <<>> =>
        /\ Len(applied.results) = 1
        /\ ~ /\ applied.inputs[1] > TWO_PI - WINDOW /\ applied.inputs[2] < WINDOW
             /\ applied.inputs[1] > WINDOW /\ applied.inputs[2] <= WINDOW

\* C24: the wrap-crossing condition implies the direct-crossing condition,
\* and didCrossTop answers once for the pair, true exactly when the
\* direct-crossing condition holds.
CrossingCasesNested ==
    applied.fn = "didCrossTop" /\ applied.results # <<>> =>
        /\ applied.inputs[1] > TWO_PI - WINDOW /\ applied.inputs[2] < WINDOW
              => applied.inputs[1] > WINDOW /\ applied.inputs[2] <= WINDOW
        /\ Len(applied.results) = 1
        /\ applied.results[1]
              <=> applied.inputs[1] > WINDOW /\ applied.inputs[2] <= WINDOW

\* a pair that crossed without wrapping: from outside the window, not near
\* 2 PI, to inside it
CrossingCasesWitness ==
    /\ applied.fn = "didCrossTop" /\ applied.results = << TRUE >>
    /\ applied.inputs[1] > WINDOW /\ applied.inputs[1] < TWO_PI - WINDOW
    /\ applied.inputs[2] <= WINDOW

\* C25: the cursor of every planet with a non-empty note sequence is an
\* index of the sequence; a tick moves the cursor of a planet whose
\* revolution it reports to the next index, modulo the length, and leaves
\* every other cursor; and updatePlanetProperties with a note sequence puts
\* the cursor of its planet at 0.
NoteIndexInRange ==
    [][/\ \A i \in 1..Len(planets') :
             Len(planets'[i].noteSequence) > 0 =>
                 planets'[i].currentNoteIndex \in 0..(Len(planets'[i].noteSequence) - 1)
       /\ lastOp'.op = "tickSimulation" =>
             \A i \in 1..Len(planets) :
                 planets'[i].currentNoteIndex =
                     IF planets[i].id \in lastOp'.advanced
                     THEN (planets[i].currentNoteIndex + 1) % Len(planets[i].noteSequence)
                     ELSE planets[i].currentNoteIndex
       /\ lastOp'.op = "updatePlanetProperties" /\ lastOp'.hit =>
             PlanetOf([planets |-> planets'], lastOp'.id).currentNoteIndex = 0]_vars

\* a planet whose cursor a tick had advanced was given another sequence,
\* not empty, and its cursor is at 0
NoteIndexWitness ==
    /\ lastOp.op = "updatePlanetProperties" /\ lastOp.hit
    /\ revs[lastOp.id].advances > 0
    /\ Len(PlanetOf(Sim, lastOp.id).noteSequence) > 0
    /\ PlanetOf(Sim, lastOp.id).currentNoteIndex = 0
    /\ hist.moved

OtherScales == {-1, 0, 2}

\* the tick's own phases leave the integrator defined under time scale s
DefinedUnder(deltaMs, s) ==
    \/ deltaMs * s * setTimeScale(engineConfig, s).timeScale # 0
    \/ \A b \in SeqToSet(world) : bodies[b].isStatic \/ bodies[b].deltaTime # 0

\* C27: a playing tick from the current state and the same tick from the
\* state that differs from it in the time scale alone give every planet the
\* same rotation and every satellite the same orbit angle; in each of the
\* two the satellite, its trigger decision and its pulse are what
\* updateSatellite and decayPulse give for the unscaled deltaMs at the
\* position the parent has after that tick's physics; and the sub-steps are
\* those of deltaMs times the time scale.
TimeScaleOnlyInPhysics ==
    isPlaying /\ star # Null =>
        \A deltaMs \in {FIXED_STEP_MS}, s \in OtherScales :
            DefinedStep(deltaMs) /\ DefinedUnder(deltaMs, s) =>
            \A one \in {tickSimulation(Sim, deltaMs)},
               other \in {tickSimulation(setSimulationTimeScale(Sim, s), deltaMs)} :
                /\ \A i \in 1..Len(planets) :
                      one.sim.planets[i].rotation = other.sim.planets[i].rotation
                /\ \A i \in 1..Len(satellites) :
                      one.sim.satellites[i].orbitAngle = other.sim.satellites[i].orbitAngle
                /\ \A run \in {one, other}, i \in 1..Len(satellites) :
                      satellites[i].parentPlanetId \in PlanetIds(Sim) =>
                      \E u \in {updateSatellite(satellites[i],
                                     PlanetOf(run.sim, satellites[i].parentPlanetId).position,
                                     deltaMs)} :
                          /\ run.sim.satellites[i] = u.satellite
                          /\ (satellites[i].id \in run.triggered) = u.triggered
                          /\ u.triggered =>
                                run.sim.triggerPulses[satellites[i].id] = PULSE_FULL
                          /\ ~u.triggered /\ satellites[i].id \in DOMAIN triggerPulses =>
                                run.sim.triggerPulses[satellites[i].id] =
                                    IF triggerPulses[satellites[i].id] # PULSE_NONE
                                    THEN decayPulse(triggerPulses[satellites[i].id], deltaMs)
                                    ELSE PULSE_NONE
                /\ Len(other.calls) = 2 * SubSteps(deltaMs * s)
                /\ other.calls[2].arg = (deltaMs * s) \div SubSteps(deltaMs * s)

\* a playing state from which the tick under time scale 0 leaves the bodies
\* where they are, the tick under the state's own time scale moves them, and
\* both advance and trigger the same satellite
TimeScaleWitness ==
    /\ isPlaying /\ star # Null /\ timeScale # 0
    /\ lastOp.op = "tickSimulation"
    /\ \E one \in {tickSimulation(Sim, FIXED_STEP_MS)},
          other \in {tickSimulation(setSimulationTimeScale(Sim, 0), FIXED_STEP_MS)} :
          /\ \A b \in SeqToSet(world) : other.sim.bodies[b].position = bodies[b].position
          /\ \E b \in SeqToSet(world) : one.sim.bodies[b].position # bodies[b].position
          /\ one.triggered # {} /\ one.triggered = other.triggered
          /\ \E i \in 1..Len(satellites) :
                other.sim.satellites[i].orbitAngle # satellites[i].orbitAngle

\* C28: every key of the trigger pulse map is the id of a satellite in the
\* satellite list.
PulseKeysAreSatellites ==
    DOMAIN triggerPulses \subseteq SatelliteIds(Sim)

\* a planet was removed with a satellite of its own, while the satellite of
\* another planet keeps the pulse a tick lit
PulseKeysWitness ==
    /\ lastOp.op = "removePlanet" /\ lastOp.hit
    /\ lastOp.removed # {}
    /\ hist.moved
    /\ \E id \in DOMAIN triggerPulses : triggerPulses[id] # PULSE_NONE

\* C29: the bodies in the physics world are the body of the current star,
\* when there is one, and the bodies of the planets in the list, each once,
\* and no other.
WorldIsStarAndPlanets ==
    /\ SeqToSet(world) =
          (IF star = Null THEN {} ELSE {star.physicsBody}) \cup
          {planets[i].physicsBody : i \in 1..Len(planets)}
    /\ Len(world) = (IF star = Null THEN 0 ELSE 1) + Len(planets)

\* the star was replaced and, of two planets, the one with a satellite was
\* removed: the world holds the second star and the planet that is left
WorldWitness ==
    /\ lastOp.op = "removePlanet" /\ lastOp.hit
    /\ lastOp.removed # {}
    /\ nextStarId = 3
    /\ Len(planets) = 1 /\ nextPlanetId = 3
    /\ Len(world) = 2

\* what no tick changes: the star, the play status, the scales, the planets
\* and satellites there are and their order, a satellite's id, parent, orbit
\* radius and orbit speed, and a planet's id, mass, note sequence, rotation
\* speed, instrument and orbit radius
TickKeeps ==
    /\ star' = star
    /\ isPlaying' = isPlaying
    /\ timeScale' = timeScale
    /\ gravityStrength' = gravityStrength
    /\ Len(planets') = Len(planets)
    /\ Len(satellites') = Len(satellites)
    /\ \A i \in 1..Len(satellites) :
          /\ satellites'[i].id = satellites[i].id
          /\ satellites'[i].parentPlanetId = satellites[i].parentPlanetId
          /\ satellites'[i].orbitRadius = satellites[i].orbitRadius
          /\ satellites'[i].orbitSpeed = satellites[i].orbitSpeed
    /\ \A i \in 1..Len(planets) :
          /\ planets'[i].id = planets[i].id
          /\ planets'[i].mass = planets[i].mass
          /\ planets'[i].noteSequence = planets[i].noteSequence
          /\ planets'[i].rotationSpeed = planets[i].rotationSpeed
          /\ planets'[i].synthType = planets[i].synthType
          /\ planets'[i].orbitRadius = planets[i].orbitRadius

\* the orbit angle of every satellite grows by orbitSpeed * deltaMs
AnglesAdvance(deltaMs) ==
    \A i \in 1..Len(satellites) :
        satellites'[i].orbitAngle =
            satellites[i].orbitAngle + (satellites[i].orbitSpeed * deltaMs) \div 1000

\* C30 as stated: a tick keeps the frame, and every tick of a playing system
\* advances the orbit angle of every satellite by orbitSpeed * deltaMs.
TickFrameWhenPlaying ==
    [][lastOp'.op = "tickSimulation" =>
          /\ TickKeeps
          /\ isPlaying => AnglesAdvance(lastOp'.id)]_vars

\* C30: a tick keeps the frame; the tick of a playing system that has a star
\* advances the orbit angle of every satellite by orbitSpeed * deltaMs, and
\* any other tick leaves every satellite as it was.
TickFrame ==
    [][lastOp'.op = "tickSimulation" =>
          /\ TickKeeps
          /\ isPlaying /\ star # Null => AnglesAdvance(lastOp'.id)
          /\ ~(isPlaying /\ star # Null) => satellites' = satellites]_vars

\* a tick of a playing system with a star moved a planet's record and a
\* satellite's angle
TickFrameWitness ==
    /\ lastOp.op = "tickSimulation" /\ lastOp.hit
    /\ \E i \in 1..Len(satellites) :
          /\ satellites[i].orbitAngle # passes[satellites[i].id].start
          /\ satellites[i].parentPlanetId \in PlanetIds(Sim)
    /\ \E i \in 1..Len(planets) :
          planets[i].rotation # 0 /\ planets[i].position = bodies[planets[i].physicsBody].position

=============================================================================
